---- MODULE Spec2Model ----
(***************************************************************************)
(* A model of the classification engine of "Why React Code Looks Like      *)
(* That": classifyDocument (src/src/classifier.ts) walks a parsed syntax   *)
(* tree in pre-order, emits candidate regions through addRegion, collects  *)
(* the comments in a second walk, and resolveOverlaps turns the candidates *)
(* into the ordered, non-overlapping output.                               *)
(*                                                                         *)
(* The parser (ts.createSourceFile) is an external collaborator: a         *)
(* document is given as its text (a sequence of one-character strings)     *)
(* together with the tree the parser returns for it, each node with its    *)
(* kind, full start (pos), token start (getStart), end and children in     *)
(* forEachChild order.  Offsets are 0-based as in the source; the text is  *)
(* a 1-based TLA+ sequence, so offset i is text[i + 1].                    *)
(***************************************************************************)
EXTENDS Integers, Sequences, FiniteSets, TLC

\* ------------------------------------------------------------------ bounds

\* Longest text of the resolver's own specification (SpecResolve).
MaxLen == 2

\* Most candidate regions of the resolver's own specification.
MaxRegions == 2

\* ------------------------------------------------------------------ layers

\* type SyntaxLayer
Layers == {"javascript", "typescript", "jsx", "react"}

\* null in positionMap: no layer recorded
NoLayer == "null"

\* A mutant of PRIORITY: typescript and jsx swapped.
PRIORITY_JsxOverTypescript(layer) ==
  CASE layer = "javascript" -> 1
    [] layer = "jsx" -> 3
    [] layer = "typescript" -> 2
    [] layer = "react" -> 4

\* A mutant of PRIORITY: jsx and typescript have the same priority.
PRIORITY_Tied(layer) ==
  CASE layer = "javascript" -> 1
    [] layer = "jsx" -> 2
    [] layer = "typescript" -> 2
    [] layer = "react" -> 4

\* const PRIORITY: higher number wins when regions overlap
PRIORITY(layer) ==
  CASE layer = "javascript" -> 1
    [] layer = "jsx" -> 2
    [] layer = "typescript" -> 3
    [] layer = "react" -> 4

\* -------------------------------------------------------------------- text

\* sourceText[i] for an index outside the text
Undefined == "undefined"

\* sourceText[i]
CharAt(text, i) == IF i >= 0 /\ i < Len(text) THEN text[i + 1] ELSE Undefined

\* sourceText.slice(start, end), for 0 <= start
Slice(text, start, end) ==
  IF start >= end THEN <<>>
  ELSE SubSeq(text, start + 1, IF end > Len(text) THEN Len(text) ELSE end)

\* s.startsWith(prefix)
StartsWith(s, prefix) ==
  Len(s) >= Len(prefix) /\ SubSeq(s, 1, Len(prefix)) = prefix

UpperCase ==
  {"A", "B", "C", "D", "E", "F", "G", "H", "I", "J", "K", "L", "M",
   "N", "O", "P", "Q", "R", "S", "T", "U", "V", "W", "X", "Y", "Z"}

LowerCase ==
  {"a", "b", "c", "d", "e", "f", "g", "h", "i", "j", "k", "l", "m",
   "n", "o", "p", "q", "r", "s", "t", "u", "v", "w", "x", "y", "z"}

Digits == {"0", "1", "2", "3", "4", "5", "6", "7", "8", "9"}

\* "React"
ReactName == <<"R", "e", "a", "c", "t">>

\* "React."
ReactDot == <<"R", "e", "a", "c", "t", ".">>

\* "React.use"
ReactDotUse == <<"R", "e", "a", "c", "t", ".", "u", "s", "e">>

\* "React.createElement"
ReactCreateElement ==
  <<"R", "e", "a", "c", "t", ".", "c", "r", "e", "a", "t", "e",
    "E", "l", "e", "m", "e", "n", "t">>

\* "createElement"
CreateElement ==
  <<"c", "r", "e", "a", "t", "e", "E", "l", "e", "m", "e", "n", "t">>

\* "key"
KeyName == <<"k", "e", "y">>

\* /^React\.use([A-Z]|$)/.test(callee)
IsQualifiedHook(callee) ==
  /\ StartsWith(callee, ReactDotUse)
  /\ \/ Len(callee) = Len(ReactDotUse)
     \/ callee[Len(ReactDotUse) + 1] \in UpperCase

\* isPascalCase: /^[A-Z][a-zA-Z0-9]*$/.test(name)
isPascalCase(name) ==
  /\ Len(name) >= 1
  /\ name[1] \in UpperCase
  /\ \A i \in 2..Len(name) : name[i] \in UpperCase \cup LowerCase \cup Digits

\* ---------------------------------------------------------- bracket matcher

RECURSIVE ScanBackward(_, _)
\* the loop of findOpeningBracket: while (pos > 0 && sourceText[pos] !== '<') pos--
ScanBackward(sourceText, pos) ==
  IF pos > 0 /\ CharAt(sourceText, pos) # "<"
  THEN ScanBackward(sourceText, pos - 1)
  ELSE pos

\* A mutant of findOpeningBracket: the character the scan stopped at is not
\* tested.
findOpeningBracket_Untested(sourceText, beforePos) ==
  ScanBackward(sourceText, beforePos)

\* findOpeningBracket(sourceText, beforePos)
findOpeningBracket(sourceText, beforePos) ==
  LET pos == ScanBackward(sourceText, beforePos)
  IN  IF CharAt(sourceText, pos) = "<" THEN pos ELSE -1

RECURSIVE ScanForward_Flat(_, _, _)
\* A mutant of ScanForward: an inner '<' does not raise the depth.
ScanForward_Flat(sourceText, pos, depth) ==
  IF pos < Len(sourceText) /\ depth > 0
  THEN ScanForward_Flat(sourceText, pos + 1,
                        IF CharAt(sourceText, pos) = ">" THEN depth - 1 ELSE depth)
  ELSE <<pos, depth>>

RECURSIVE ScanForward(_, _, _)
\* the loop of findMatchingCloseBracket; yields the final <<pos, depth>>
ScanForward(sourceText, pos, depth) ==
  IF pos < Len(sourceText) /\ depth > 0
  THEN LET char == CharAt(sourceText, pos)
       IN  ScanForward(sourceText, pos + 1,
                       IF char = "<" THEN depth + 1
                       ELSE IF char = ">" THEN depth - 1
                       ELSE depth)
  ELSE <<pos, depth>>

\* findMatchingCloseBracket(sourceText, openBracketPos)
findMatchingCloseBracket(sourceText, openBracketPos) ==
  LET final == ScanForward(sourceText, openBracketPos + 1, 1)
  IN  IF final[2] = 0 THEN final[1] - 1 ELSE -1

\* -------------------------------------------------------------- name sets

\* const REACT_TYPES
REACT_TYPES ==
  {
    <<"F", "C">>,  \* FC
    <<"F", "u", "n", "c", "t", "i", "o", "n", "C", "o", "m", "p", "o", "n", "e", "n", "t">>,  \* FunctionComponent
    <<"C", "o", "m", "p", "o", "n", "e", "n", "t", "T", "y", "p", "e">>,  \* ComponentType
    <<"C", "o", "m", "p", "o", "n", "e", "n", "t", "C", "l", "a", "s", "s">>,  \* ComponentClass
    <<"E", "l", "e", "m", "e", "n", "t", "T", "y", "p", "e">>,  \* ElementType
    <<"E", "x", "o", "t", "i", "c", "C", "o", "m", "p", "o", "n", "e", "n", "t">>,  \* ExoticComponent
    <<"F", "o", "r", "w", "a", "r", "d", "R", "e", "f", "E", "x", "o", "t", "i", "c", "C", "o", "m", "p", "o", "n", "e", "n", "t">>,  \* ForwardRefExoticComponent
    <<"M", "e", "m", "o", "E", "x", "o", "t", "i", "c", "C", "o", "m", "p", "o", "n", "e", "n", "t">>,  \* MemoExoticComponent
    <<"L", "a", "z", "y", "E", "x", "o", "t", "i", "c", "C", "o", "m", "p", "o", "n", "e", "n", "t">>,  \* LazyExoticComponent
    <<"R", "e", "a", "c", "t", "N", "o", "d", "e">>,  \* ReactNode
    <<"R", "e", "a", "c", "t", "E", "l", "e", "m", "e", "n", "t">>,  \* ReactElement
    <<"R", "e", "a", "c", "t", "C", "h", "i", "l", "d">>,  \* ReactChild
    <<"R", "e", "a", "c", "t", "F", "r", "a", "g", "m", "e", "n", "t">>,  \* ReactFragment
    <<"R", "e", "a", "c", "t", "P", "o", "r", "t", "a", "l">>,  \* ReactPortal
    <<"R", "e", "a", "c", "t", "T", "e", "x", "t">>,  \* ReactText
    <<"E", "l", "e", "m", "e", "n", "t">>,  \* Element
    <<"I", "n", "t", "r", "i", "n", "s", "i", "c", "E", "l", "e", "m", "e", "n", "t", "s">>,  \* IntrinsicElements
    <<"P", "r", "o", "p", "s", "W", "i", "t", "h", "C", "h", "i", "l", "d", "r", "e", "n">>,  \* PropsWithChildren
    <<"P", "r", "o", "p", "s", "W", "i", "t", "h", "R", "e", "f">>,  \* PropsWithRef
    <<"C", "o", "m", "p", "o", "n", "e", "n", "t", "P", "r", "o", "p", "s">>,  \* ComponentProps
    <<"C", "o", "m", "p", "o", "n", "e", "n", "t", "P", "r", "o", "p", "s", "W", "i", "t", "h", "R", "e", "f">>,  \* ComponentPropsWithRef
    <<"C", "o", "m", "p", "o", "n", "e", "n", "t", "P", "r", "o", "p", "s", "W", "i", "t", "h", "o", "u", "t", "R", "e", "f">>,  \* ComponentPropsWithoutRef
    <<"H", "T", "M", "L", "A", "t", "t", "r", "i", "b", "u", "t", "e", "s">>,  \* HTMLAttributes
    <<"S", "V", "G", "A", "t", "t", "r", "i", "b", "u", "t", "e", "s">>,  \* SVGAttributes
    <<"H", "T", "M", "L", "P", "r", "o", "p", "s">>,  \* HTMLProps
    <<"C", "S", "S", "P", "r", "o", "p", "e", "r", "t", "i", "e", "s">>,  \* CSSProperties
    <<"D", "O", "M", "A", "t", "t", "r", "i", "b", "u", "t", "e", "s">>,  \* DOMAttributes
    <<"A", "r", "i", "a", "A", "t", "t", "r", "i", "b", "u", "t", "e", "s">>,  \* AriaAttributes
    <<"R", "e", "f">>,  \* Ref
    <<"R", "e", "f", "O", "b", "j", "e", "c", "t">>,  \* RefObject
    <<"M", "u", "t", "a", "b", "l", "e", "R", "e", "f", "O", "b", "j", "e", "c", "t">>,  \* MutableRefObject
    <<"F", "o", "r", "w", "a", "r", "d", "e", "d", "R", "e", "f">>,  \* ForwardedRef
    <<"L", "e", "g", "a", "c", "y", "R", "e", "f">>,  \* LegacyRef
    <<"R", "e", "f", "C", "a", "l", "l", "b", "a", "c", "k">>,  \* RefCallback
    <<"E", "l", "e", "m", "e", "n", "t", "R", "e", "f">>,  \* ElementRef
    <<"C", "o", "m", "p", "o", "n", "e", "n", "t", "R", "e", "f">>,  \* ComponentRef
    <<"S", "y", "n", "t", "h", "e", "t", "i", "c", "E", "v", "e", "n", "t">>,  \* SyntheticEvent
    <<"C", "h", "a", "n", "g", "e", "E", "v", "e", "n", "t">>,  \* ChangeEvent
    <<"M", "o", "u", "s", "e", "E", "v", "e", "n", "t">>,  \* MouseEvent
    <<"F", "o", "r", "m", "E", "v", "e", "n", "t">>,  \* FormEvent
    <<"K", "e", "y", "b", "o", "a", "r", "d", "E", "v", "e", "n", "t">>,  \* KeyboardEvent
    <<"F", "o", "c", "u", "s", "E", "v", "e", "n", "t">>,  \* FocusEvent
    <<"D", "r", "a", "g", "E", "v", "e", "n", "t">>,  \* DragEvent
    <<"T", "o", "u", "c", "h", "E", "v", "e", "n", "t">>,  \* TouchEvent
    <<"P", "o", "i", "n", "t", "e", "r", "E", "v", "e", "n", "t">>,  \* PointerEvent
    <<"W", "h", "e", "e", "l", "E", "v", "e", "n", "t">>,  \* WheelEvent
    <<"A", "n", "i", "m", "a", "t", "i", "o", "n", "E", "v", "e", "n", "t">>,  \* AnimationEvent
    <<"T", "r", "a", "n", "s", "i", "t", "i", "o", "n", "E", "v", "e", "n", "t">>,  \* TransitionEvent
    <<"C", "l", "i", "p", "b", "o", "a", "r", "d", "E", "v", "e", "n", "t">>,  \* ClipboardEvent
    <<"C", "o", "m", "p", "o", "s", "i", "t", "i", "o", "n", "E", "v", "e", "n", "t">>,  \* CompositionEvent
    <<"U", "I", "E", "v", "e", "n", "t">>,  \* UIEvent
    <<"D", "i", "s", "p", "a", "t", "c", "h">>,  \* Dispatch
    <<"S", "e", "t", "S", "t", "a", "t", "e", "A", "c", "t", "i", "o", "n">>,  \* SetStateAction
    <<"R", "e", "d", "u", "c", "e", "r", "S", "t", "a", "t", "e">>,  \* ReducerState
    <<"R", "e", "d", "u", "c", "e", "r", "A", "c", "t", "i", "o", "n">>,  \* ReducerAction
    <<"C", "o", "n", "t", "e", "x", "t">>,  \* Context
    <<"P", "r", "o", "v", "i", "d", "e", "r">>,  \* Provider
    <<"C", "o", "n", "s", "u", "m", "e", "r">>,  \* Consumer
    <<"S", "u", "s", "p", "e", "n", "s", "e">>,  \* Suspense
    <<"S", "u", "s", "p", "e", "n", "s", "e", "P", "r", "o", "p", "s">>,  \* SuspenseProps
    <<"S", "t", "r", "i", "c", "t", "M", "o", "d", "e">>,  \* StrictMode
    <<"P", "r", "o", "f", "i", "l", "e", "r">>,  \* Profiler
    <<"P", "r", "o", "f", "i", "l", "e", "r", "P", "r", "o", "p", "s">>,  \* ProfilerProps
    <<"F", "r", "a", "g", "m", "e", "n", "t">>,  \* Fragment
    <<"K", "e", "y">>  \* Key
  }

\* const REACT_HOOKS
REACT_HOOKS ==
  {
    <<"u", "s", "e", "S", "t", "a", "t", "e">>,  \* useState
    <<"u", "s", "e", "E", "f", "f", "e", "c", "t">>,  \* useEffect
    <<"u", "s", "e", "C", "o", "n", "t", "e", "x", "t">>,  \* useContext
    <<"u", "s", "e", "R", "e", "d", "u", "c", "e", "r">>,  \* useReducer
    <<"u", "s", "e", "C", "a", "l", "l", "b", "a", "c", "k">>,  \* useCallback
    <<"u", "s", "e", "M", "e", "m", "o">>,  \* useMemo
    <<"u", "s", "e", "R", "e", "f">>,  \* useRef
    <<"u", "s", "e", "I", "m", "p", "e", "r", "a", "t", "i", "v", "e", "H", "a", "n", "d", "l", "e">>,  \* useImperativeHandle
    <<"u", "s", "e", "L", "a", "y", "o", "u", "t", "E", "f", "f", "e", "c", "t">>,  \* useLayoutEffect
    <<"u", "s", "e", "D", "e", "b", "u", "g", "V", "a", "l", "u", "e">>,  \* useDebugValue
    <<"u", "s", "e", "D", "e", "f", "e", "r", "r", "e", "d", "V", "a", "l", "u", "e">>,  \* useDeferredValue
    <<"u", "s", "e", "T", "r", "a", "n", "s", "i", "t", "i", "o", "n">>,  \* useTransition
    <<"u", "s", "e", "I", "d">>,  \* useId
    <<"u", "s", "e", "S", "y", "n", "c", "E", "x", "t", "e", "r", "n", "a", "l", "S", "t", "o", "r", "e">>,  \* useSyncExternalStore
    <<"u", "s", "e", "I", "n", "s", "e", "r", "t", "i", "o", "n", "E", "f", "f", "e", "c", "t">>,  \* useInsertionEffect
    <<"u", "s", "e">>  \* use
  }

\* const REACT_UTILS (used when imported directly, not via React.*)
REACT_UTILS ==
  {
    <<"m", "e", "m", "o">>,  \* memo
    <<"f", "o", "r", "w", "a", "r", "d", "R", "e", "f">>,  \* forwardRef
    <<"l", "a", "z", "y">>,  \* lazy
    <<"c", "r", "e", "a", "t", "e", "C", "o", "n", "t", "e", "x", "t">>,  \* createContext
    <<"c", "r", "e", "a", "t", "e", "R", "e", "f">>,  \* createRef
    <<"c", "l", "o", "n", "e", "E", "l", "e", "m", "e", "n", "t">>,  \* cloneElement
    <<"i", "s", "V", "a", "l", "i", "d", "E", "l", "e", "m", "e", "n", "t">>,  \* isValidElement
    <<"c", "r", "e", "a", "t", "e", "E", "l", "e", "m", "e", "n", "t">>,  \* createElement
    <<"C", "h", "i", "l", "d", "r", "e", "n">>,  \* Children
    <<"F", "r", "a", "g", "m", "e", "n", "t">>,  \* Fragment
    <<"S", "u", "s", "p", "e", "n", "s", "e">>,  \* Suspense
    <<"S", "t", "r", "i", "c", "t", "M", "o", "d", "e">>,  \* StrictMode
    <<"P", "r", "o", "f", "i", "l", "e", "r">>  \* Profiler
  }

\* A mutant of REACT_DIRECTIVES: "use strict" is taken for a React directive.
REACT_DIRECTIVES_WithStrict ==
  { <<"u", "s", "e", " ", "c", "l", "i", "e", "n", "t">>,
    <<"u", "s", "e", " ", "s", "e", "r", "v", "e", "r">>,
    <<"u", "s", "e", " ", "s", "t", "r", "i", "c", "t">> }

\* const REACT_DIRECTIVES = new Set(["use client", "use server"])
REACT_DIRECTIVES ==
  { <<"u", "s", "e", " ", "c", "l", "i", "e", "n", "t">>,
    <<"u", "s", "e", " ", "s", "e", "r", "v", "e", "r">> }

\* --------------------------------------------------------------- documents
\* Each document is a text and the tree ts.createSourceFile(..., TSX) returns
\* for it, numbered in pre-order (node 1 is the SourceFile).  A field that a
\* node kind does not have is 0 (a node) or <<>> (a node array); colonToken is
\* the offset of the ColonToken among the node's getChildren(), or -1.

\* the empty string
DocEmpty ==
  [text |-> <<>>,
   nodes |-> <<
     [kind |-> "SourceFile", pos |-> 0, start |-> 0, end |-> 0, children |-> <<2>>,
      expression |-> 0, name |-> 0, typeArguments |-> <<>>, arguments |-> <<>>, flags |-> {},
      initializer |-> 0, tagName |-> 0, typeParameters |-> <<>>, importClause |-> 0,
      namedBindings |-> 0, exportClause |-> 0, elements |-> <<>>, type |-> 0, colonToken |-> -1],
     [kind |-> "EndOfFileToken", pos |-> 0, start |-> 0, end |-> 0, children |-> <<>>,
      expression |-> 0, name |-> 0, typeArguments |-> <<>>, arguments |-> <<>>, flags |-> {},
      initializer |-> 0, tagName |-> 0, typeParameters |-> <<>>, importClause |-> 0,
      namedBindings |-> 0, exportClause |-> 0, elements |-> <<>>, type |-> 0, colonToken |-> -1]
   >>]

\* whitespace only: " \n\t"
DocBlank ==
  [text |-> <<" ", "\n", "\t">>,
   nodes |-> <<
     [kind |-> "SourceFile", pos |-> 0, start |-> 3, end |-> 3, children |-> <<2>>,
      expression |-> 0, name |-> 0, typeArguments |-> <<>>, arguments |-> <<>>, flags |-> {},
      initializer |-> 0, tagName |-> 0, typeParameters |-> <<>>, importClause |-> 0,
      namedBindings |-> 0, exportClause |-> 0, elements |-> <<>>, type |-> 0, colonToken |-> -1],
     [kind |-> "EndOfFileToken", pos |-> 0, start |-> 3, end |-> 3, children |-> <<>>,
      expression |-> 0, name |-> 0, typeArguments |-> <<>>, arguments |-> <<>>, flags |-> {},
      initializer |-> 0, tagName |-> 0, typeParameters |-> <<>>, importClause |-> 0,
      namedBindings |-> 0, exportClause |-> 0, elements |-> <<>>, type |-> 0, colonToken |-> -1]
   >>]

\* useState(0)
DocHook ==
  [text |-> <<"u", "s", "e", "S", "t", "a", "t", "e", "(", "0", ")">>,
   nodes |-> <<
     [kind |-> "SourceFile", pos |-> 0, start |-> 0, end |-> 11, children |-> <<2, 6>>,
      expression |-> 0, name |-> 0, typeArguments |-> <<>>, arguments |-> <<>>, flags |-> {},
      initializer |-> 0, tagName |-> 0, typeParameters |-> <<>>, importClause |-> 0,
      namedBindings |-> 0, exportClause |-> 0, elements |-> <<>>, type |-> 0, colonToken |-> -1],
     [kind |-> "ExpressionStatement", pos |-> 0, start |-> 0, end |-> 11, children |-> <<3>>,
      expression |-> 3, name |-> 0, typeArguments |-> <<>>, arguments |-> <<>>, flags |-> {},
      initializer |-> 0, tagName |-> 0, typeParameters |-> <<>>, importClause |-> 0,
      namedBindings |-> 0, exportClause |-> 0, elements |-> <<>>, type |-> 0, colonToken |-> -1],
     [kind |-> "CallExpression", pos |-> 0, start |-> 0, end |-> 11, children |-> <<4, 5>>,
      expression |-> 4, name |-> 0, typeArguments |-> <<>>, arguments |-> <<5>>, flags |-> {},
      initializer |-> 0, tagName |-> 0, typeParameters |-> <<>>, importClause |-> 0,
      namedBindings |-> 0, exportClause |-> 0, elements |-> <<>>, type |-> 0, colonToken |-> -1],
     [kind |-> "Identifier", pos |-> 0, start |-> 0, end |-> 8, children |-> <<>>,
      expression |-> 0, name |-> 0, typeArguments |-> <<>>, arguments |-> <<>>, flags |-> {},
      initializer |-> 0, tagName |-> 0, typeParameters |-> <<>>, importClause |-> 0,
      namedBindings |-> 0, exportClause |-> 0, elements |-> <<>>, type |-> 0, colonToken |-> -1],
     [kind |-> "NumericLiteral", pos |-> 9, start |-> 9, end |-> 10, children |-> <<>>,
      expression |-> 0, name |-> 0, typeArguments |-> <<>>, arguments |-> <<>>, flags |-> {},
      initializer |-> 0, tagName |-> 0, typeParameters |-> <<>>, importClause |-> 0,
      namedBindings |-> 0, exportClause |-> 0, elements |-> <<>>, type |-> 0, colonToken |-> -1],
     [kind |-> "EndOfFileToken", pos |-> 11, start |-> 11, end |-> 11, children |-> <<>>,
      expression |-> 0, name |-> 0, typeArguments |-> <<>>, arguments |-> <<>>, flags |-> {},
      initializer |-> 0, tagName |-> 0, typeParameters |-> <<>>, importClause |-> 0,
      namedBindings |-> 0, exportClause |-> 0, elements |-> <<>>, type |-> 0, colonToken |-> -1]
   >>]

\* useState<T>(0)
DocHookTyped ==
  [text |-> <<"u", "s", "e", "S", "t", "a", "t", "e", "<", "T", ">", "(", "0", ")">>,
   nodes |-> <<
     [kind |-> "SourceFile", pos |-> 0, start |-> 0, end |-> 14, children |-> <<2, 8>>,
      expression |-> 0, name |-> 0, typeArguments |-> <<>>, arguments |-> <<>>, flags |-> {},
      initializer |-> 0, tagName |-> 0, typeParameters |-> <<>>, importClause |-> 0,
      namedBindings |-> 0, exportClause |-> 0, elements |-> <<>>, type |-> 0, colonToken |-> -1],
     [kind |-> "ExpressionStatement", pos |-> 0, start |-> 0, end |-> 14, children |-> <<3>>,
      expression |-> 3, name |-> 0, typeArguments |-> <<>>, arguments |-> <<>>, flags |-> {},
      initializer |-> 0, tagName |-> 0, typeParameters |-> <<>>, importClause |-> 0,
      namedBindings |-> 0, exportClause |-> 0, elements |-> <<>>, type |-> 0, colonToken |-> -1],
     [kind |-> "CallExpression", pos |-> 0, start |-> 0, end |-> 14, children |-> <<4, 5, 7>>,
      expression |-> 4, name |-> 0, typeArguments |-> <<5>>, arguments |-> <<7>>, flags |-> {},
      initializer |-> 0, tagName |-> 0, typeParameters |-> <<>>, importClause |-> 0,
      namedBindings |-> 0, exportClause |-> 0, elements |-> <<>>, type |-> 0, colonToken |-> -1],
     [kind |-> "Identifier", pos |-> 0, start |-> 0, end |-> 8, children |-> <<>>,
      expression |-> 0, name |-> 0, typeArguments |-> <<>>, arguments |-> <<>>, flags |-> {},
      initializer |-> 0, tagName |-> 0, typeParameters |-> <<>>, importClause |-> 0,
      namedBindings |-> 0, exportClause |-> 0, elements |-> <<>>, type |-> 0, colonToken |-> -1],
     [kind |-> "TypeReference", pos |-> 9, start |-> 9, end |-> 10, children |-> <<6>>,
      expression |-> 0, name |-> 6, typeArguments |-> <<>>, arguments |-> <<>>, flags |-> {},
      initializer |-> 0, tagName |-> 0, typeParameters |-> <<>>, importClause |-> 0,
      namedBindings |-> 0, exportClause |-> 0, elements |-> <<>>, type |-> 0, colonToken |-> -1],
     [kind |-> "Identifier", pos |-> 9, start |-> 9, end |-> 10, children |-> <<>>,
      expression |-> 0, name |-> 0, typeArguments |-> <<>>, arguments |-> <<>>, flags |-> {},
      initializer |-> 0, tagName |-> 0, typeParameters |-> <<>>, importClause |-> 0,
      namedBindings |-> 0, exportClause |-> 0, elements |-> <<>>, type |-> 0, colonToken |-> -1],
     [kind |-> "NumericLiteral", pos |-> 12, start |-> 12, end |-> 13, children |-> <<>>,
      expression |-> 0, name |-> 0, typeArguments |-> <<>>, arguments |-> <<>>, flags |-> {},
      initializer |-> 0, tagName |-> 0, typeParameters |-> <<>>, importClause |-> 0,
      namedBindings |-> 0, exportClause |-> 0, elements |-> <<>>, type |-> 0, colonToken |-> -1],
     [kind |-> "EndOfFileToken", pos |-> 14, start |-> 14, end |-> 14, children |-> <<>>,
      expression |-> 0, name |-> 0, typeArguments |-> <<>>, arguments |-> <<>>, flags |-> {},
      initializer |-> 0, tagName |-> 0, typeParameters |-> <<>>, importClause |-> 0,
      namedBindings |-> 0, exportClause |-> 0, elements |-> <<>>, type |-> 0, colonToken |-> -1]
   >>]

\* useless(0)
DocCustom ==
  [text |-> <<"u", "s", "e", "l", "e", "s", "s", "(", "0", ")">>,
   nodes |-> <<
     [kind |-> "SourceFile", pos |-> 0, start |-> 0, end |-> 10, children |-> <<2, 6>>,
      expression |-> 0, name |-> 0, typeArguments |-> <<>>, arguments |-> <<>>, flags |-> {},
      initializer |-> 0, tagName |-> 0, typeParameters |-> <<>>, importClause |-> 0,
      namedBindings |-> 0, exportClause |-> 0, elements |-> <<>>, type |-> 0, colonToken |-> -1],
     [kind |-> "ExpressionStatement", pos |-> 0, start |-> 0, end |-> 10, children |-> <<3>>,
      expression |-> 3, name |-> 0, typeArguments |-> <<>>, arguments |-> <<>>, flags |-> {},
      initializer |-> 0, tagName |-> 0, typeParameters |-> <<>>, importClause |-> 0,
      namedBindings |-> 0, exportClause |-> 0, elements |-> <<>>, type |-> 0, colonToken |-> -1],
     [kind |-> "CallExpression", pos |-> 0, start |-> 0, end |-> 10, children |-> <<4, 5>>,
      expression |-> 4, name |-> 0, typeArguments |-> <<>>, arguments |-> <<5>>, flags |-> {},
      initializer |-> 0, tagName |-> 0, typeParameters |-> <<>>, importClause |-> 0,
      namedBindings |-> 0, exportClause |-> 0, elements |-> <<>>, type |-> 0, colonToken |-> -1],
     [kind |-> "Identifier", pos |-> 0, start |-> 0, end |-> 7, children |-> <<>>,
      expression |-> 0, name |-> 0, typeArguments |-> <<>>, arguments |-> <<>>, flags |-> {},
      initializer |-> 0, tagName |-> 0, typeParameters |-> <<>>, importClause |-> 0,
      namedBindings |-> 0, exportClause |-> 0, elements |-> <<>>, type |-> 0, colonToken |-> -1],
     [kind |-> "NumericLiteral", pos |-> 8, start |-> 8, end |-> 9, children |-> <<>>,
      expression |-> 0, name |-> 0, typeArguments |-> <<>>, arguments |-> <<>>, flags |-> {},
      initializer |-> 0, tagName |-> 0, typeParameters |-> <<>>, importClause |-> 0,
      namedBindings |-> 0, exportClause |-> 0, elements |-> <<>>, type |-> 0, colonToken |-> -1],
     [kind |-> "EndOfFileToken", pos |-> 10, start |-> 10, end |-> 10, children |-> <<>>,
      expression |-> 0, name |-> 0, typeArguments |-> <<>>, arguments |-> <<>>, flags |-> {},
      initializer |-> 0, tagName |-> 0, typeParameters |-> <<>>, importClause |-> 0,
      namedBindings |-> 0, exportClause |-> 0, elements |-> <<>>, type |-> 0, colonToken |-> -1]
   >>]

\* React.useId()
DocReactHook ==
  [text |-> <<"R", "e", "a", "c", "t", ".", "u", "s", "e", "I", "d", "(", ")">>,
   nodes |-> <<
     [kind |-> "SourceFile", pos |-> 0, start |-> 0, end |-> 13, children |-> <<2, 7>>,
      expression |-> 0, name |-> 0, typeArguments |-> <<>>, arguments |-> <<>>, flags |-> {},
      initializer |-> 0, tagName |-> 0, typeParameters |-> <<>>, importClause |-> 0,
      namedBindings |-> 0, exportClause |-> 0, elements |-> <<>>, type |-> 0, colonToken |-> -1],
     [kind |-> "ExpressionStatement", pos |-> 0, start |-> 0, end |-> 13, children |-> <<3>>,
      expression |-> 3, name |-> 0, typeArguments |-> <<>>, arguments |-> <<>>, flags |-> {},
      initializer |-> 0, tagName |-> 0, typeParameters |-> <<>>, importClause |-> 0,
      namedBindings |-> 0, exportClause |-> 0, elements |-> <<>>, type |-> 0, colonToken |-> -1],
     [kind |-> "CallExpression", pos |-> 0, start |-> 0, end |-> 13, children |-> <<4>>,
      expression |-> 4, name |-> 0, typeArguments |-> <<>>, arguments |-> <<>>, flags |-> {},
      initializer |-> 0, tagName |-> 0, typeParameters |-> <<>>, importClause |-> 0,
      namedBindings |-> 0, exportClause |-> 0, elements |-> <<>>, type |-> 0, colonToken |-> -1],
     [kind |-> "PropertyAccessExpression", pos |-> 0, start |-> 0, end |-> 11, children |-> <<5, 6>>,
      expression |-> 5, name |-> 6, typeArguments |-> <<>>, arguments |-> <<>>, flags |-> {},
      initializer |-> 0, tagName |-> 0, typeParameters |-> <<>>, importClause |-> 0,
      namedBindings |-> 0, exportClause |-> 0, elements |-> <<>>, type |-> 0, colonToken |-> -1],
     [kind |-> "Identifier", pos |-> 0, start |-> 0, end |-> 5, children |-> <<>>,
      expression |-> 0, name |-> 0, typeArguments |-> <<>>, arguments |-> <<>>, flags |-> {},
      initializer |-> 0, tagName |-> 0, typeParameters |-> <<>>, importClause |-> 0,
      namedBindings |-> 0, exportClause |-> 0, elements |-> <<>>, type |-> 0, colonToken |-> -1],
     [kind |-> "Identifier", pos |-> 6, start |-> 6, end |-> 11, children |-> <<>>,
      expression |-> 0, name |-> 0, typeArguments |-> <<>>, arguments |-> <<>>, flags |-> {},
      initializer |-> 0, tagName |-> 0, typeParameters |-> <<>>, importClause |-> 0,
      namedBindings |-> 0, exportClause |-> 0, elements |-> <<>>, type |-> 0, colonToken |-> -1],
     [kind |-> "EndOfFileToken", pos |-> 13, start |-> 13, end |-> 13, children |-> <<>>,
      expression |-> 0, name |-> 0, typeArguments |-> <<>>, arguments |-> <<>>, flags |-> {},
      initializer |-> 0, tagName |-> 0, typeParameters |-> <<>>, importClause |-> 0,
      namedBindings |-> 0, exportClause |-> 0, elements |-> <<>>, type |-> 0, colonToken |-> -1]
   >>]

\* memo(f)
DocUtil ==
  [text |-> <<"m", "e", "m", "o", "(", "f", ")">>,
   nodes |-> <<
     [kind |-> "SourceFile", pos |-> 0, start |-> 0, end |-> 7, children |-> <<2, 6>>,
      expression |-> 0, name |-> 0, typeArguments |-> <<>>, arguments |-> <<>>, flags |-> {},
      initializer |-> 0, tagName |-> 0, typeParameters |-> <<>>, importClause |-> 0,
      namedBindings |-> 0, exportClause |-> 0, elements |-> <<>>, type |-> 0, colonToken |-> -1],
     [kind |-> "ExpressionStatement", pos |-> 0, start |-> 0, end |-> 7, children |-> <<3>>,
      expression |-> 3, name |-> 0, typeArguments |-> <<>>, arguments |-> <<>>, flags |-> {},
      initializer |-> 0, tagName |-> 0, typeParameters |-> <<>>, importClause |-> 0,
      namedBindings |-> 0, exportClause |-> 0, elements |-> <<>>, type |-> 0, colonToken |-> -1],
     [kind |-> "CallExpression", pos |-> 0, start |-> 0, end |-> 7, children |-> <<4, 5>>,
      expression |-> 4, name |-> 0, typeArguments |-> <<>>, arguments |-> <<5>>, flags |-> {},
      initializer |-> 0, tagName |-> 0, typeParameters |-> <<>>, importClause |-> 0,
      namedBindings |-> 0, exportClause |-> 0, elements |-> <<>>, type |-> 0, colonToken |-> -1],
     [kind |-> "Identifier", pos |-> 0, start |-> 0, end |-> 4, children |-> <<>>,
      expression |-> 0, name |-> 0, typeArguments |-> <<>>, arguments |-> <<>>, flags |-> {},
      initializer |-> 0, tagName |-> 0, typeParameters |-> <<>>, importClause |-> 0,
      namedBindings |-> 0, exportClause |-> 0, elements |-> <<>>, type |-> 0, colonToken |-> -1],
     [kind |-> "Identifier", pos |-> 5, start |-> 5, end |-> 6, children |-> <<>>,
      expression |-> 0, name |-> 0, typeArguments |-> <<>>, arguments |-> <<>>, flags |-> {},
      initializer |-> 0, tagName |-> 0, typeParameters |-> <<>>, importClause |-> 0,
      namedBindings |-> 0, exportClause |-> 0, elements |-> <<>>, type |-> 0, colonToken |-> -1],
     [kind |-> "EndOfFileToken", pos |-> 7, start |-> 7, end |-> 7, children |-> <<>>,
      expression |-> 0, name |-> 0, typeArguments |-> <<>>, arguments |-> <<>>, flags |-> {},
      initializer |-> 0, tagName |-> 0, typeParameters |-> <<>>, importClause |-> 0,
      namedBindings |-> 0, exportClause |-> 0, elements |-> <<>>, type |-> 0, colonToken |-> -1]
   >>]

\* enum E{A} E.A
DocEnumAccess ==
  [text |-> <<"e", "n", "u", "m", " ", "E", "{", "A", "}", " ", "E", ".", "A">>,
   nodes |-> <<
     [kind |-> "SourceFile", pos |-> 0, start |-> 0, end |-> 13, children |-> <<2, 6, 10>>,
      expression |-> 0, name |-> 0, typeArguments |-> <<>>, arguments |-> <<>>, flags |-> {},
      initializer |-> 0, tagName |-> 0, typeParameters |-> <<>>, importClause |-> 0,
      namedBindings |-> 0, exportClause |-> 0, elements |-> <<>>, type |-> 0, colonToken |-> -1],
     [kind |-> "EnumDeclaration", pos |-> 0, start |-> 0, end |-> 9, children |-> <<3, 4>>,
      expression |-> 0, name |-> 3, typeArguments |-> <<>>, arguments |-> <<>>, flags |-> {},
      initializer |-> 0, tagName |-> 0, typeParameters |-> <<>>, importClause |-> 0,
      namedBindings |-> 0, exportClause |-> 0, elements |-> <<>>, type |-> 0, colonToken |-> -1],
     [kind |-> "Identifier", pos |-> 4, start |-> 5, end |-> 6, children |-> <<>>,
      expression |-> 0, name |-> 0, typeArguments |-> <<>>, arguments |-> <<>>, flags |-> {},
      initializer |-> 0, tagName |-> 0, typeParameters |-> <<>>, importClause |-> 0,
      namedBindings |-> 0, exportClause |-> 0, elements |-> <<>>, type |-> 0, colonToken |-> -1],
     [kind |-> "EnumMember", pos |-> 7, start |-> 7, end |-> 8, children |-> <<5>>,
      expression |-> 0, name |-> 5, typeArguments |-> <<>>, arguments |-> <<>>, flags |-> {},
      initializer |-> 0, tagName |-> 0, typeParameters |-> <<>>, importClause |-> 0,
      namedBindings |-> 0, exportClause |-> 0, elements |-> <<>>, type |-> 0, colonToken |-> -1],
     [kind |-> "Identifier", pos |-> 7, start |-> 7, end |-> 8, children |-> <<>>,
      expression |-> 0, name |-> 0, typeArguments |-> <<>>, arguments |-> <<>>, flags |-> {},
      initializer |-> 0, tagName |-> 0, typeParameters |-> <<>>, importClause |-> 0,
      namedBindings |-> 0, exportClause |-> 0, elements |-> <<>>, type |-> 0, colonToken |-> -1],
     [kind |-> "ExpressionStatement", pos |-> 9, start |-> 10, end |-> 13, children |-> <<7>>,
      expression |-> 7, name |-> 0, typeArguments |-> <<>>, arguments |-> <<>>, flags |-> {},
      initializer |-> 0, tagName |-> 0, typeParameters |-> <<>>, importClause |-> 0,
      namedBindings |-> 0, exportClause |-> 0, elements |-> <<>>, type |-> 0, colonToken |-> -1],
     [kind |-> "PropertyAccessExpression", pos |-> 9, start |-> 10, end |-> 13, children |-> <<8, 9>>,
      expression |-> 8, name |-> 9, typeArguments |-> <<>>, arguments |-> <<>>, flags |-> {},
      initializer |-> 0, tagName |-> 0, typeParameters |-> <<>>, importClause |-> 0,
      namedBindings |-> 0, exportClause |-> 0, elements |-> <<>>, type |-> 0, colonToken |-> -1],
     [kind |-> "Identifier", pos |-> 9, start |-> 10, end |-> 11, children |-> <<>>,
      expression |-> 0, name |-> 0, typeArguments |-> <<>>, arguments |-> <<>>, flags |-> {},
      initializer |-> 0, tagName |-> 0, typeParameters |-> <<>>, importClause |-> 0,
      namedBindings |-> 0, exportClause |-> 0, elements |-> <<>>, type |-> 0, colonToken |-> -1],
     [kind |-> "Identifier", pos |-> 12, start |-> 12, end |-> 13, children |-> <<>>,
      expression |-> 0, name |-> 0, typeArguments |-> <<>>, arguments |-> <<>>, flags |-> {},
      initializer |-> 0, tagName |-> 0, typeParameters |-> <<>>, importClause |-> 0,
      namedBindings |-> 0, exportClause |-> 0, elements |-> <<>>, type |-> 0, colonToken |-> -1],
     [kind |-> "EndOfFileToken", pos |-> 13, start |-> 13, end |-> 13, children |-> <<>>,
      expression |-> 0, name |-> 0, typeArguments |-> <<>>, arguments |-> <<>>, flags |-> {},
      initializer |-> 0, tagName |-> 0, typeParameters |-> <<>>, importClause |-> 0,
      namedBindings |-> 0, exportClause |-> 0, elements |-> <<>>, type |-> 0, colonToken |-> -1]
   >>]

\* E.A;enum E{A}
DocAccessEnum ==
  [text |-> <<"E", ".", "A", ";", "e", "n", "u", "m", " ", "E", "{", "A", "}">>,
   nodes |-> <<
     [kind |-> "SourceFile", pos |-> 0, start |-> 0, end |-> 13, children |-> <<2, 6, 10>>,
      expression |-> 0, name |-> 0, typeArguments |-> <<>>, arguments |-> <<>>, flags |-> {},
      initializer |-> 0, tagName |-> 0, typeParameters |-> <<>>, importClause |-> 0,
      namedBindings |-> 0, exportClause |-> 0, elements |-> <<>>, type |-> 0, colonToken |-> -1],
     [kind |-> "ExpressionStatement", pos |-> 0, start |-> 0, end |-> 4, children |-> <<3>>,
      expression |-> 3, name |-> 0, typeArguments |-> <<>>, arguments |-> <<>>, flags |-> {},
      initializer |-> 0, tagName |-> 0, typeParameters |-> <<>>, importClause |-> 0,
      namedBindings |-> 0, exportClause |-> 0, elements |-> <<>>, type |-> 0, colonToken |-> -1],
     [kind |-> "PropertyAccessExpression", pos |-> 0, start |-> 0, end |-> 3, children |-> <<4, 5>>,
      expression |-> 4, name |-> 5, typeArguments |-> <<>>, arguments |-> <<>>, flags |-> {},
      initializer |-> 0, tagName |-> 0, typeParameters |-> <<>>, importClause |-> 0,
      namedBindings |-> 0, exportClause |-> 0, elements |-> <<>>, type |-> 0, colonToken |-> -1],
     [kind |-> "Identifier", pos |-> 0, start |-> 0, end |-> 1, children |-> <<>>,
      expression |-> 0, name |-> 0, typeArguments |-> <<>>, arguments |-> <<>>, flags |-> {},
      initializer |-> 0, tagName |-> 0, typeParameters |-> <<>>, importClause |-> 0,
      namedBindings |-> 0, exportClause |-> 0, elements |-> <<>>, type |-> 0, colonToken |-> -1],
     [kind |-> "Identifier", pos |-> 2, start |-> 2, end |-> 3, children |-> <<>>,
      expression |-> 0, name |-> 0, typeArguments |-> <<>>, arguments |-> <<>>, flags |-> {},
      initializer |-> 0, tagName |-> 0, typeParameters |-> <<>>, importClause |-> 0,
      namedBindings |-> 0, exportClause |-> 0, elements |-> <<>>, type |-> 0, colonToken |-> -1],
     [kind |-> "EnumDeclaration", pos |-> 4, start |-> 4, end |-> 13, children |-> <<7, 8>>,
      expression |-> 0, name |-> 7, typeArguments |-> <<>>, arguments |-> <<>>, flags |-> {},
      initializer |-> 0, tagName |-> 0, typeParameters |-> <<>>, importClause |-> 0,
      namedBindings |-> 0, exportClause |-> 0, elements |-> <<>>, type |-> 0, colonToken |-> -1],
     [kind |-> "Identifier", pos |-> 8, start |-> 9, end |-> 10, children |-> <<>>,
      expression |-> 0, name |-> 0, typeArguments |-> <<>>, arguments |-> <<>>, flags |-> {},
      initializer |-> 0, tagName |-> 0, typeParameters |-> <<>>, importClause |-> 0,
      namedBindings |-> 0, exportClause |-> 0, elements |-> <<>>, type |-> 0, colonToken |-> -1],
     [kind |-> "EnumMember", pos |-> 11, start |-> 11, end |-> 12, children |-> <<9>>,
      expression |-> 0, name |-> 9, typeArguments |-> <<>>, arguments |-> <<>>, flags |-> {},
      initializer |-> 0, tagName |-> 0, typeParameters |-> <<>>, importClause |-> 0,
      namedBindings |-> 0, exportClause |-> 0, elements |-> <<>>, type |-> 0, colonToken |-> -1],
     [kind |-> "Identifier", pos |-> 11, start |-> 11, end |-> 12, children |-> <<>>,
      expression |-> 0, name |-> 0, typeArguments |-> <<>>, arguments |-> <<>>, flags |-> {},
      initializer |-> 0, tagName |-> 0, typeParameters |-> <<>>, importClause |-> 0,
      namedBindings |-> 0, exportClause |-> 0, elements |-> <<>>, type |-> 0, colonToken |-> -1],
     [kind |-> "EndOfFileToken", pos |-> 13, start |-> 13, end |-> 13, children |-> <<>>,
      expression |-> 0, name |-> 0, typeArguments |-> <<>>, arguments |-> <<>>, flags |-> {},
      initializer |-> 0, tagName |-> 0, typeParameters |-> <<>>, importClause |-> 0,
      namedBindings |-> 0, exportClause |-> 0, elements |-> <<>>, type |-> 0, colonToken |-> -1]
   >>]

\* E.A
DocAccess ==
  [text |-> <<"E", ".", "A">>,
   nodes |-> <<
     [kind |-> "SourceFile", pos |-> 0, start |-> 0, end |-> 3, children |-> <<2, 6>>,
      expression |-> 0, name |-> 0, typeArguments |-> <<>>, arguments |-> <<>>, flags |-> {},
      initializer |-> 0, tagName |-> 0, typeParameters |-> <<>>, importClause |-> 0,
      namedBindings |-> 0, exportClause |-> 0, elements |-> <<>>, type |-> 0, colonToken |-> -1],
     [kind |-> "ExpressionStatement", pos |-> 0, start |-> 0, end |-> 3, children |-> <<3>>,
      expression |-> 3, name |-> 0, typeArguments |-> <<>>, arguments |-> <<>>, flags |-> {},
      initializer |-> 0, tagName |-> 0, typeParameters |-> <<>>, importClause |-> 0,
      namedBindings |-> 0, exportClause |-> 0, elements |-> <<>>, type |-> 0, colonToken |-> -1],
     [kind |-> "PropertyAccessExpression", pos |-> 0, start |-> 0, end |-> 3, children |-> <<4, 5>>,
      expression |-> 4, name |-> 5, typeArguments |-> <<>>, arguments |-> <<>>, flags |-> {},
      initializer |-> 0, tagName |-> 0, typeParameters |-> <<>>, importClause |-> 0,
      namedBindings |-> 0, exportClause |-> 0, elements |-> <<>>, type |-> 0, colonToken |-> -1],
     [kind |-> "Identifier", pos |-> 0, start |-> 0, end |-> 1, children |-> <<>>,
      expression |-> 0, name |-> 0, typeArguments |-> <<>>, arguments |-> <<>>, flags |-> {},
      initializer |-> 0, tagName |-> 0, typeParameters |-> <<>>, importClause |-> 0,
      namedBindings |-> 0, exportClause |-> 0, elements |-> <<>>, type |-> 0, colonToken |-> -1],
     [kind |-> "Identifier", pos |-> 2, start |-> 2, end |-> 3, children |-> <<>>,
      expression |-> 0, name |-> 0, typeArguments |-> <<>>, arguments |-> <<>>, flags |-> {},
      initializer |-> 0, tagName |-> 0, typeParameters |-> <<>>, importClause |-> 0,
      namedBindings |-> 0, exportClause |-> 0, elements |-> <<>>, type |-> 0, colonToken |-> -1],
     [kind |-> "EndOfFileToken", pos |-> 3, start |-> 3, end |-> 3, children |-> <<>>,
      expression |-> 0, name |-> 0, typeArguments |-> <<>>, arguments |-> <<>>, flags |-> {},
      initializer |-> 0, tagName |-> 0, typeParameters |-> <<>>, importClause |-> 0,
      namedBindings |-> 0, exportClause |-> 0, elements |-> <<>>, type |-> 0, colonToken |-> -1]
   >>]

\* a; b
DocStmts ==
  [text |-> <<"a", ";", " ", "b">>,
   nodes |-> <<
     [kind |-> "SourceFile", pos |-> 0, start |-> 0, end |-> 4, children |-> <<2, 4, 6>>,
      expression |-> 0, name |-> 0, typeArguments |-> <<>>, arguments |-> <<>>, flags |-> {},
      initializer |-> 0, tagName |-> 0, typeParameters |-> <<>>, importClause |-> 0,
      namedBindings |-> 0, exportClause |-> 0, elements |-> <<>>, type |-> 0, colonToken |-> -1],
     [kind |-> "ExpressionStatement", pos |-> 0, start |-> 0, end |-> 2, children |-> <<3>>,
      expression |-> 3, name |-> 0, typeArguments |-> <<>>, arguments |-> <<>>, flags |-> {},
      initializer |-> 0, tagName |-> 0, typeParameters |-> <<>>, importClause |-> 0,
      namedBindings |-> 0, exportClause |-> 0, elements |-> <<>>, type |-> 0, colonToken |-> -1],
     [kind |-> "Identifier", pos |-> 0, start |-> 0, end |-> 1, children |-> <<>>,
      expression |-> 0, name |-> 0, typeArguments |-> <<>>, arguments |-> <<>>, flags |-> {},
      initializer |-> 0, tagName |-> 0, typeParameters |-> <<>>, importClause |-> 0,
      namedBindings |-> 0, exportClause |-> 0, elements |-> <<>>, type |-> 0, colonToken |-> -1],
     [kind |-> "ExpressionStatement", pos |-> 2, start |-> 3, end |-> 4, children |-> <<5>>,
      expression |-> 5, name |-> 0, typeArguments |-> <<>>, arguments |-> <<>>, flags |-> {},
      initializer |-> 0, tagName |-> 0, typeParameters |-> <<>>, importClause |-> 0,
      namedBindings |-> 0, exportClause |-> 0, elements |-> <<>>, type |-> 0, colonToken |-> -1],
     [kind |-> "Identifier", pos |-> 2, start |-> 3, end |-> 4, children |-> <<>>,
      expression |-> 0, name |-> 0, typeArguments |-> <<>>, arguments |-> <<>>, flags |-> {},
      initializer |-> 0, tagName |-> 0, typeParameters |-> <<>>, importClause |-> 0,
      namedBindings |-> 0, exportClause |-> 0, elements |-> <<>>, type |-> 0, colonToken |-> -1],
     [kind |-> "EndOfFileToken", pos |-> 4, start |-> 4, end |-> 4, children |-> <<>>,
      expression |-> 0, name |-> 0, typeArguments |-> <<>>, arguments |-> <<>>, flags |-> {},
      initializer |-> 0, tagName |-> 0, typeParameters |-> <<>>, importClause |-> 0,
      namedBindings |-> 0, exportClause |-> 0, elements |-> <<>>, type |-> 0, colonToken |-> -1]
   >>]

\* const x = 1;
DocConst ==
  [text |-> <<"c", "o", "n", "s", "t", " ", "x", " ", "=", " ", "1", ";">>,
   nodes |-> <<
     [kind |-> "SourceFile", pos |-> 0, start |-> 0, end |-> 12, children |-> <<2, 7>>,
      expression |-> 0, name |-> 0, typeArguments |-> <<>>, arguments |-> <<>>, flags |-> {},
      initializer |-> 0, tagName |-> 0, typeParameters |-> <<>>, importClause |-> 0,
      namedBindings |-> 0, exportClause |-> 0, elements |-> <<>>, type |-> 0, colonToken |-> -1],
     [kind |-> "VariableStatement", pos |-> 0, start |-> 0, end |-> 12, children |-> <<3>>,
      expression |-> 0, name |-> 0, typeArguments |-> <<>>, arguments |-> <<>>, flags |-> {},
      initializer |-> 0, tagName |-> 0, typeParameters |-> <<>>, importClause |-> 0,
      namedBindings |-> 0, exportClause |-> 0, elements |-> <<>>, type |-> 0, colonToken |-> -1],
     [kind |-> "VariableDeclarationList", pos |-> 0, start |-> 0, end |-> 11, children |-> <<4>>,
      expression |-> 0, name |-> 0, typeArguments |-> <<>>, arguments |-> <<>>, flags |-> {},
      initializer |-> 0, tagName |-> 0, typeParameters |-> <<>>, importClause |-> 0,
      namedBindings |-> 0, exportClause |-> 0, elements |-> <<>>, type |-> 0, colonToken |-> -1],
     [kind |-> "VariableDeclaration", pos |-> 5, start |-> 6, end |-> 11, children |-> <<5, 6>>,
      expression |-> 0, name |-> 0, typeArguments |-> <<>>, arguments |-> <<>>, flags |-> {},
      initializer |-> 0, tagName |-> 0, typeParameters |-> <<>>, importClause |-> 0,
      namedBindings |-> 0, exportClause |-> 0, elements |-> <<>>, type |-> 0, colonToken |-> -1],
     [kind |-> "Identifier", pos |-> 5, start |-> 6, end |-> 7, children |-> <<>>,
      expression |-> 0, name |-> 0, typeArguments |-> <<>>, arguments |-> <<>>, flags |-> {},
      initializer |-> 0, tagName |-> 0, typeParameters |-> <<>>, importClause |-> 0,
      namedBindings |-> 0, exportClause |-> 0, elements |-> <<>>, type |-> 0, colonToken |-> -1],
     [kind |-> "NumericLiteral", pos |-> 9, start |-> 10, end |-> 11, children |-> <<>>,
      expression |-> 0, name |-> 0, typeArguments |-> <<>>, arguments |-> <<>>, flags |-> {},
      initializer |-> 0, tagName |-> 0, typeParameters |-> <<>>, importClause |-> 0,
      namedBindings |-> 0, exportClause |-> 0, elements |-> <<>>, type |-> 0, colonToken |-> -1],
     [kind |-> "EndOfFileToken", pos |-> 12, start |-> 12, end |-> 12, children |-> <<>>,
      expression |-> 0, name |-> 0, typeArguments |-> <<>>, arguments |-> <<>>, flags |-> {},
      initializer |-> 0, tagName |-> 0, typeParameters |-> <<>>, importClause |-> 0,
      namedBindings |-> 0, exportClause |-> 0, elements |-> <<>>, type |-> 0, colonToken |-> -1]
   >>]

\* "use client"
DocDirective ==
  [text |-> <<"\"", "u", "s", "e", " ", "c", "l", "i", "e", "n", "t", "\"">>,
   nodes |-> <<
     [kind |-> "SourceFile", pos |-> 0, start |-> 0, end |-> 12, children |-> <<2, 4>>,
      expression |-> 0, name |-> 0, typeArguments |-> <<>>, arguments |-> <<>>, flags |-> {},
      initializer |-> 0, tagName |-> 0, typeParameters |-> <<>>, importClause |-> 0,
      namedBindings |-> 0, exportClause |-> 0, elements |-> <<>>, type |-> 0, colonToken |-> -1],
     [kind |-> "ExpressionStatement", pos |-> 0, start |-> 0, end |-> 12, children |-> <<3>>,
      expression |-> 3, name |-> 0, typeArguments |-> <<>>, arguments |-> <<>>, flags |-> {},
      initializer |-> 0, tagName |-> 0, typeParameters |-> <<>>, importClause |-> 0,
      namedBindings |-> 0, exportClause |-> 0, elements |-> <<>>, type |-> 0, colonToken |-> -1],
     [kind |-> "StringLiteral", pos |-> 0, start |-> 0, end |-> 12, children |-> <<>>,
      expression |-> 0, name |-> 0, typeArguments |-> <<>>, arguments |-> <<>>, flags |-> {},
      initializer |-> 0, tagName |-> 0, typeParameters |-> <<>>, importClause |-> 0,
      namedBindings |-> 0, exportClause |-> 0, elements |-> <<>>, type |-> 0, colonToken |-> -1],
     [kind |-> "EndOfFileToken", pos |-> 12, start |-> 12, end |-> 12, children |-> <<>>,
      expression |-> 0, name |-> 0, typeArguments |-> <<>>, arguments |-> <<>>, flags |-> {},
      initializer |-> 0, tagName |-> 0, typeParameters |-> <<>>, importClause |-> 0,
      namedBindings |-> 0, exportClause |-> 0, elements |-> <<>>, type |-> 0, colonToken |-> -1]
   >>]

\* a /*c*/
DocComment ==
  [text |-> <<"a", " ", "/", "*", "c", "*", "/">>,
   nodes |-> <<
     [kind |-> "SourceFile", pos |-> 0, start |-> 0, end |-> 7, children |-> <<2, 4>>,
      expression |-> 0, name |-> 0, typeArguments |-> <<>>, arguments |-> <<>>, flags |-> {},
      initializer |-> 0, tagName |-> 0, typeParameters |-> <<>>, importClause |-> 0,
      namedBindings |-> 0, exportClause |-> 0, elements |-> <<>>, type |-> 0, colonToken |-> -1],
     [kind |-> "ExpressionStatement", pos |-> 0, start |-> 0, end |-> 1, children |-> <<3>>,
      expression |-> 3, name |-> 0, typeArguments |-> <<>>, arguments |-> <<>>, flags |-> {},
      initializer |-> 0, tagName |-> 0, typeParameters |-> <<>>, importClause |-> 0,
      namedBindings |-> 0, exportClause |-> 0, elements |-> <<>>, type |-> 0, colonToken |-> -1],
     [kind |-> "Identifier", pos |-> 0, start |-> 0, end |-> 1, children |-> <<>>,
      expression |-> 0, name |-> 0, typeArguments |-> <<>>, arguments |-> <<>>, flags |-> {},
      initializer |-> 0, tagName |-> 0, typeParameters |-> <<>>, importClause |-> 0,
      namedBindings |-> 0, exportClause |-> 0, elements |-> <<>>, type |-> 0, colonToken |-> -1],
     [kind |-> "EndOfFileToken", pos |-> 1, start |-> 7, end |-> 7, children |-> <<>>,
      expression |-> 0, name |-> 0, typeArguments |-> <<>>, arguments |-> <<>>, flags |-> {},
      initializer |-> 0, tagName |-> 0, typeParameters |-> <<>>, importClause |-> 0,
      namedBindings |-> 0, exportClause |-> 0, elements |-> <<>>, type |-> 0, colonToken |-> -1]
   >>]

\* new Map<K>()
DocNew ==
  [text |-> <<"n", "e", "w", " ", "M", "a", "p", "<", "K", ">", "(", ")">>,
   nodes |-> <<
     [kind |-> "SourceFile", pos |-> 0, start |-> 0, end |-> 12, children |-> <<2, 7>>,
      expression |-> 0, name |-> 0, typeArguments |-> <<>>, arguments |-> <<>>, flags |-> {},
      initializer |-> 0, tagName |-> 0, typeParameters |-> <<>>, importClause |-> 0,
      namedBindings |-> 0, exportClause |-> 0, elements |-> <<>>, type |-> 0, colonToken |-> -1],
     [kind |-> "ExpressionStatement", pos |-> 0, start |-> 0, end |-> 12, children |-> <<3>>,
      expression |-> 3, name |-> 0, typeArguments |-> <<>>, arguments |-> <<>>, flags |-> {},
      initializer |-> 0, tagName |-> 0, typeParameters |-> <<>>, importClause |-> 0,
      namedBindings |-> 0, exportClause |-> 0, elements |-> <<>>, type |-> 0, colonToken |-> -1],
     [kind |-> "NewExpression", pos |-> 0, start |-> 0, end |-> 12, children |-> <<4, 5>>,
      expression |-> 4, name |-> 0, typeArguments |-> <<5>>, arguments |-> <<>>, flags |-> {},
      initializer |-> 0, tagName |-> 0, typeParameters |-> <<>>, importClause |-> 0,
      namedBindings |-> 0, exportClause |-> 0, elements |-> <<>>, type |-> 0, colonToken |-> -1],
     [kind |-> "Identifier", pos |-> 3, start |-> 4, end |-> 7, children |-> <<>>,
      expression |-> 0, name |-> 0, typeArguments |-> <<>>, arguments |-> <<>>, flags |-> {},
      initializer |-> 0, tagName |-> 0, typeParameters |-> <<>>, importClause |-> 0,
      namedBindings |-> 0, exportClause |-> 0, elements |-> <<>>, type |-> 0, colonToken |-> -1],
     [kind |-> "TypeReference", pos |-> 8, start |-> 8, end |-> 9, children |-> <<6>>,
      expression |-> 0, name |-> 6, typeArguments |-> <<>>, arguments |-> <<>>, flags |-> {},
      initializer |-> 0, tagName |-> 0, typeParameters |-> <<>>, importClause |-> 0,
      namedBindings |-> 0, exportClause |-> 0, elements |-> <<>>, type |-> 0, colonToken |-> -1],
     [kind |-> "Identifier", pos |-> 8, start |-> 8, end |-> 9, children |-> <<>>,
      expression |-> 0, name |-> 0, typeArguments |-> <<>>, arguments |-> <<>>, flags |-> {},
      initializer |-> 0, tagName |-> 0, typeParameters |-> <<>>, importClause |-> 0,
      namedBindings |-> 0, exportClause |-> 0, elements |-> <<>>, type |-> 0, colonToken |-> -1],
     [kind |-> "EndOfFileToken", pos |-> 12, start |-> 12, end |-> 12, children |-> <<>>,
      expression |-> 0, name |-> 0, typeArguments |-> <<>>, arguments |-> <<>>, flags |-> {},
      initializer |-> 0, tagName |-> 0, typeParameters |-> <<>>, importClause |-> 0,
      namedBindings |-> 0, exportClause |-> 0, elements |-> <<>>, type |-> 0, colonToken |-> -1]
   >>]

\* React(0)
DocReactCall ==
  [text |-> <<"R", "e", "a", "c", "t", "(", "0", ")">>,
   nodes |-> <<
     [kind |-> "SourceFile", pos |-> 0, start |-> 0, end |-> 8, children |-> <<2, 6>>,
      expression |-> 0, name |-> 0, typeArguments |-> <<>>, arguments |-> <<>>, flags |-> {},
      initializer |-> 0, tagName |-> 0, typeParameters |-> <<>>, importClause |-> 0,
      namedBindings |-> 0, exportClause |-> 0, elements |-> <<>>, type |-> 0, colonToken |-> -1],
     [kind |-> "ExpressionStatement", pos |-> 0, start |-> 0, end |-> 8, children |-> <<3>>,
      expression |-> 3, name |-> 0, typeArguments |-> <<>>, arguments |-> <<>>, flags |-> {},
      initializer |-> 0, tagName |-> 0, typeParameters |-> <<>>, importClause |-> 0,
      namedBindings |-> 0, exportClause |-> 0, elements |-> <<>>, type |-> 0, colonToken |-> -1],
     [kind |-> "CallExpression", pos |-> 0, start |-> 0, end |-> 8, children |-> <<4, 5>>,
      expression |-> 4, name |-> 0, typeArguments |-> <<>>, arguments |-> <<5>>, flags |-> {},
      initializer |-> 0, tagName |-> 0, typeParameters |-> <<>>, importClause |-> 0,
      namedBindings |-> 0, exportClause |-> 0, elements |-> <<>>, type |-> 0, colonToken |-> -1],
     [kind |-> "Identifier", pos |-> 0, start |-> 0, end |-> 5, children |-> <<>>,
      expression |-> 0, name |-> 0, typeArguments |-> <<>>, arguments |-> <<>>, flags |-> {},
      initializer |-> 0, tagName |-> 0, typeParameters |-> <<>>, importClause |-> 0,
      namedBindings |-> 0, exportClause |-> 0, elements |-> <<>>, type |-> 0, colonToken |-> -1],
     [kind |-> "NumericLiteral", pos |-> 6, start |-> 6, end |-> 7, children |-> <<>>,
      expression |-> 0, name |-> 0, typeArguments |-> <<>>, arguments |-> <<>>, flags |-> {},
      initializer |-> 0, tagName |-> 0, typeParameters |-> <<>>, importClause |-> 0,
      namedBindings |-> 0, exportClause |-> 0, elements |-> <<>>, type |-> 0, colonToken |-> -1],
     [kind |-> "EndOfFileToken", pos |-> 8, start |-> 8, end |-> 8, children |-> <<>>,
      expression |-> 0, name |-> 0, typeArguments |-> <<>>, arguments |-> <<>>, flags |-> {},
      initializer |-> 0, tagName |-> 0, typeParameters |-> <<>>, importClause |-> 0,
      namedBindings |-> 0, exportClause |-> 0, elements |-> <<>>, type |-> 0, colonToken |-> -1]
   >>]

\* React.createElement(A,{key:1})
DocCreate ==
  [text |-> <<"R", "e", "a", "c", "t", ".", "c", "r", "e", "a", "t", "e", "E", "l", "e", "m", "e", "n", "t", "(", "A", ",", "{", "k", "e", "y", ":", "1", "}", ")">>,
   nodes |-> <<
     [kind |-> "SourceFile", pos |-> 0, start |-> 0, end |-> 30, children |-> <<2, 12>>,
      expression |-> 0, name |-> 0, typeArguments |-> <<>>, arguments |-> <<>>, flags |-> {},
      initializer |-> 0, tagName |-> 0, typeParameters |-> <<>>, importClause |-> 0,
      namedBindings |-> 0, exportClause |-> 0, elements |-> <<>>, type |-> 0, colonToken |-> -1],
     [kind |-> "ExpressionStatement", pos |-> 0, start |-> 0, end |-> 30, children |-> <<3>>,
      expression |-> 3, name |-> 0, typeArguments |-> <<>>, arguments |-> <<>>, flags |-> {},
      initializer |-> 0, tagName |-> 0, typeParameters |-> <<>>, importClause |-> 0,
      namedBindings |-> 0, exportClause |-> 0, elements |-> <<>>, type |-> 0, colonToken |-> -1],
     [kind |-> "CallExpression", pos |-> 0, start |-> 0, end |-> 30, children |-> <<4, 7, 8>>,
      expression |-> 4, name |-> 0, typeArguments |-> <<>>, arguments |-> <<7, 8>>, flags |-> {},
      initializer |-> 0, tagName |-> 0, typeParameters |-> <<>>, importClause |-> 0,
      namedBindings |-> 0, exportClause |-> 0, elements |-> <<>>, type |-> 0, colonToken |-> -1],
     [kind |-> "PropertyAccessExpression", pos |-> 0, start |-> 0, end |-> 19, children |-> <<5, 6>>,
      expression |-> 5, name |-> 6, typeArguments |-> <<>>, arguments |-> <<>>, flags |-> {},
      initializer |-> 0, tagName |-> 0, typeParameters |-> <<>>, importClause |-> 0,
      namedBindings |-> 0, exportClause |-> 0, elements |-> <<>>, type |-> 0, colonToken |-> -1],
     [kind |-> "Identifier", pos |-> 0, start |-> 0, end |-> 5, children |-> <<>>,
      expression |-> 0, name |-> 0, typeArguments |-> <<>>, arguments |-> <<>>, flags |-> {},
      initializer |-> 0, tagName |-> 0, typeParameters |-> <<>>, importClause |-> 0,
      namedBindings |-> 0, exportClause |-> 0, elements |-> <<>>, type |-> 0, colonToken |-> -1],
     [kind |-> "Identifier", pos |-> 6, start |-> 6, end |-> 19, children |-> <<>>,
      expression |-> 0, name |-> 0, typeArguments |-> <<>>, arguments |-> <<>>, flags |-> {},
      initializer |-> 0, tagName |-> 0, typeParameters |-> <<>>, importClause |-> 0,
      namedBindings |-> 0, exportClause |-> 0, elements |-> <<>>, type |-> 0, colonToken |-> -1],
     [kind |-> "Identifier", pos |-> 20, start |-> 20, end |-> 21, children |-> <<>>,
      expression |-> 0, name |-> 0, typeArguments |-> <<>>, arguments |-> <<>>, flags |-> {},
      initializer |-> 0, tagName |-> 0, typeParameters |-> <<>>, importClause |-> 0,
      namedBindings |-> 0, exportClause |-> 0, elements |-> <<>>, type |-> 0, colonToken |-> -1],
     [kind |-> "ObjectLiteralExpression", pos |-> 22, start |-> 22, end |-> 29, children |-> <<9>>,
      expression |-> 0, name |-> 0, typeArguments |-> <<>>, arguments |-> <<>>, flags |-> {},
      initializer |-> 0, tagName |-> 0, typeParameters |-> <<>>, importClause |-> 0,
      namedBindings |-> 0, exportClause |-> 0, elements |-> <<>>, type |-> 0, colonToken |-> -1],
     [kind |-> "PropertyAssignment", pos |-> 23, start |-> 23, end |-> 28, children |-> <<10, 11>>,
      expression |-> 0, name |-> 10, typeArguments |-> <<>>, arguments |-> <<>>, flags |-> {},
      initializer |-> 11, tagName |-> 0, typeParameters |-> <<>>, importClause |-> 0,
      namedBindings |-> 0, exportClause |-> 0, elements |-> <<>>, type |-> 0, colonToken |-> -1],
     [kind |-> "Identifier", pos |-> 23, start |-> 23, end |-> 26, children |-> <<>>,
      expression |-> 0, name |-> 0, typeArguments |-> <<>>, arguments |-> <<>>, flags |-> {},
      initializer |-> 0, tagName |-> 0, typeParameters |-> <<>>, importClause |-> 0,
      namedBindings |-> 0, exportClause |-> 0, elements |-> <<>>, type |-> 0, colonToken |-> -1],
     [kind |-> "NumericLiteral", pos |-> 27, start |-> 27, end |-> 28, children |-> <<>>,
      expression |-> 0, name |-> 0, typeArguments |-> <<>>, arguments |-> <<>>, flags |-> {},
      initializer |-> 0, tagName |-> 0, typeParameters |-> <<>>, importClause |-> 0,
      namedBindings |-> 0, exportClause |-> 0, elements |-> <<>>, type |-> 0, colonToken |-> -1],
     [kind |-> "EndOfFileToken", pos |-> 30, start |-> 30, end |-> 30, children |-> <<>>,
      expression |-> 0, name |-> 0, typeArguments |-> <<>>, arguments |-> <<>>, flags |-> {},
      initializer |-> 0, tagName |-> 0, typeParameters |-> <<>>, importClause |-> 0,
      namedBindings |-> 0, exportClause |-> 0, elements |-> <<>>, type |-> 0, colonToken |-> -1]
   >>]

\* createElement(A,{key:1})
DocCreateBare ==
  [text |-> <<"c", "r", "e", "a", "t", "e", "E", "l", "e", "m", "e", "n", "t", "(", "A", ",", "{", "k", "e", "y", ":", "1", "}", ")">>,
   nodes |-> <<
     [kind |-> "SourceFile", pos |-> 0, start |-> 0, end |-> 24, children |-> <<2, 10>>,
      expression |-> 0, name |-> 0, typeArguments |-> <<>>, arguments |-> <<>>, flags |-> {},
      initializer |-> 0, tagName |-> 0, typeParameters |-> <<>>, importClause |-> 0,
      namedBindings |-> 0, exportClause |-> 0, elements |-> <<>>, type |-> 0, colonToken |-> -1],
     [kind |-> "ExpressionStatement", pos |-> 0, start |-> 0, end |-> 24, children |-> <<3>>,
      expression |-> 3, name |-> 0, typeArguments |-> <<>>, arguments |-> <<>>, flags |-> {},
      initializer |-> 0, tagName |-> 0, typeParameters |-> <<>>, importClause |-> 0,
      namedBindings |-> 0, exportClause |-> 0, elements |-> <<>>, type |-> 0, colonToken |-> -1],
     [kind |-> "CallExpression", pos |-> 0, start |-> 0, end |-> 24, children |-> <<4, 5, 6>>,
      expression |-> 4, name |-> 0, typeArguments |-> <<>>, arguments |-> <<5, 6>>, flags |-> {},
      initializer |-> 0, tagName |-> 0, typeParameters |-> <<>>, importClause |-> 0,
      namedBindings |-> 0, exportClause |-> 0, elements |-> <<>>, type |-> 0, colonToken |-> -1],
     [kind |-> "Identifier", pos |-> 0, start |-> 0, end |-> 13, children |-> <<>>,
      expression |-> 0, name |-> 0, typeArguments |-> <<>>, arguments |-> <<>>, flags |-> {},
      initializer |-> 0, tagName |-> 0, typeParameters |-> <<>>, importClause |-> 0,
      namedBindings |-> 0, exportClause |-> 0, elements |-> <<>>, type |-> 0, colonToken |-> -1],
     [kind |-> "Identifier", pos |-> 14, start |-> 14, end |-> 15, children |-> <<>>,
      expression |-> 0, name |-> 0, typeArguments |-> <<>>, arguments |-> <<>>, flags |-> {},
      initializer |-> 0, tagName |-> 0, typeParameters |-> <<>>, importClause |-> 0,
      namedBindings |-> 0, exportClause |-> 0, elements |-> <<>>, type |-> 0, colonToken |-> -1],
     [kind |-> "ObjectLiteralExpression", pos |-> 16, start |-> 16, end |-> 23, children |-> <<7>>,
      expression |-> 0, name |-> 0, typeArguments |-> <<>>, arguments |-> <<>>, flags |-> {},
      initializer |-> 0, tagName |-> 0, typeParameters |-> <<>>, importClause |-> 0,
      namedBindings |-> 0, exportClause |-> 0, elements |-> <<>>, type |-> 0, colonToken |-> -1],
     [kind |-> "PropertyAssignment", pos |-> 17, start |-> 17, end |-> 22, children |-> <<8, 9>>,
      expression |-> 0, name |-> 8, typeArguments |-> <<>>, arguments |-> <<>>, flags |-> {},
      initializer |-> 9, tagName |-> 0, typeParameters |-> <<>>, importClause |-> 0,
      namedBindings |-> 0, exportClause |-> 0, elements |-> <<>>, type |-> 0, colonToken |-> -1],
     [kind |-> "Identifier", pos |-> 17, start |-> 17, end |-> 20, children |-> <<>>,
      expression |-> 0, name |-> 0, typeArguments |-> <<>>, arguments |-> <<>>, flags |-> {},
      initializer |-> 0, tagName |-> 0, typeParameters |-> <<>>, importClause |-> 0,
      namedBindings |-> 0, exportClause |-> 0, elements |-> <<>>, type |-> 0, colonToken |-> -1],
     [kind |-> "NumericLiteral", pos |-> 21, start |-> 21, end |-> 22, children |-> <<>>,
      expression |-> 0, name |-> 0, typeArguments |-> <<>>, arguments |-> <<>>, flags |-> {},
      initializer |-> 0, tagName |-> 0, typeParameters |-> <<>>, importClause |-> 0,
      namedBindings |-> 0, exportClause |-> 0, elements |-> <<>>, type |-> 0, colonToken |-> -1],
     [kind |-> "EndOfFileToken", pos |-> 24, start |-> 24, end |-> 24, children |-> <<>>,
      expression |-> 0, name |-> 0, typeArguments |-> <<>>, arguments |-> <<>>, flags |-> {},
      initializer |-> 0, tagName |-> 0, typeParameters |-> <<>>, importClause |-> 0,
      namedBindings |-> 0, exportClause |-> 0, elements |-> <<>>, type |-> 0, colonToken |-> -1]
   >>]

\* React.createElement(React.F)
DocCreateFragment ==
  [text |-> <<"R", "e", "a", "c", "t", ".", "c", "r", "e", "a", "t", "e", "E", "l", "e", "m", "e", "n", "t", "(", "R", "e", "a", "c", "t", ".", "F", ")">>,
   nodes |-> <<
     [kind |-> "SourceFile", pos |-> 0, start |-> 0, end |-> 28, children |-> <<2, 10>>,
      expression |-> 0, name |-> 0, typeArguments |-> <<>>, arguments |-> <<>>, flags |-> {},
      initializer |-> 0, tagName |-> 0, typeParameters |-> <<>>, importClause |-> 0,
      namedBindings |-> 0, exportClause |-> 0, elements |-> <<>>, type |-> 0, colonToken |-> -1],
     [kind |-> "ExpressionStatement", pos |-> 0, start |-> 0, end |-> 28, children |-> <<3>>,
      expression |-> 3, name |-> 0, typeArguments |-> <<>>, arguments |-> <<>>, flags |-> {},
      initializer |-> 0, tagName |-> 0, typeParameters |-> <<>>, importClause |-> 0,
      namedBindings |-> 0, exportClause |-> 0, elements |-> <<>>, type |-> 0, colonToken |-> -1],
     [kind |-> "CallExpression", pos |-> 0, start |-> 0, end |-> 28, children |-> <<4, 7>>,
      expression |-> 4, name |-> 0, typeArguments |-> <<>>, arguments |-> <<7>>, flags |-> {},
      initializer |-> 0, tagName |-> 0, typeParameters |-> <<>>, importClause |-> 0,
      namedBindings |-> 0, exportClause |-> 0, elements |-> <<>>, type |-> 0, colonToken |-> -1],
     [kind |-> "PropertyAccessExpression", pos |-> 0, start |-> 0, end |-> 19, children |-> <<5, 6>>,
      expression |-> 5, name |-> 6, typeArguments |-> <<>>, arguments |-> <<>>, flags |-> {},
      initializer |-> 0, tagName |-> 0, typeParameters |-> <<>>, importClause |-> 0,
      namedBindings |-> 0, exportClause |-> 0, elements |-> <<>>, type |-> 0, colonToken |-> -1],
     [kind |-> "Identifier", pos |-> 0, start |-> 0, end |-> 5, children |-> <<>>,
      expression |-> 0, name |-> 0, typeArguments |-> <<>>, arguments |-> <<>>, flags |-> {},
      initializer |-> 0, tagName |-> 0, typeParameters |-> <<>>, importClause |-> 0,
      namedBindings |-> 0, exportClause |-> 0, elements |-> <<>>, type |-> 0, colonToken |-> -1],
     [kind |-> "Identifier", pos |-> 6, start |-> 6, end |-> 19, children |-> <<>>,
      expression |-> 0, name |-> 0, typeArguments |-> <<>>, arguments |-> <<>>, flags |-> {},
      initializer |-> 0, tagName |-> 0, typeParameters |-> <<>>, importClause |-> 0,
      namedBindings |-> 0, exportClause |-> 0, elements |-> <<>>, type |-> 0, colonToken |-> -1],
     [kind |-> "PropertyAccessExpression", pos |-> 20, start |-> 20, end |-> 27, children |-> <<8, 9>>,
      expression |-> 8, name |-> 9, typeArguments |-> <<>>, arguments |-> <<>>, flags |-> {},
      initializer |-> 0, tagName |-> 0, typeParameters |-> <<>>, importClause |-> 0,
      namedBindings |-> 0, exportClause |-> 0, elements |-> <<>>, type |-> 0, colonToken |-> -1],
     [kind |-> "Identifier", pos |-> 20, start |-> 20, end |-> 25, children |-> <<>>,
      expression |-> 0, name |-> 0, typeArguments |-> <<>>, arguments |-> <<>>, flags |-> {},
      initializer |-> 0, tagName |-> 0, typeParameters |-> <<>>, importClause |-> 0,
      namedBindings |-> 0, exportClause |-> 0, elements |-> <<>>, type |-> 0, colonToken |-> -1],
     [kind |-> "Identifier", pos |-> 26, start |-> 26, end |-> 27, children |-> <<>>,
      expression |-> 0, name |-> 0, typeArguments |-> <<>>, arguments |-> <<>>, flags |-> {},
      initializer |-> 0, tagName |-> 0, typeParameters |-> <<>>, importClause |-> 0,
      namedBindings |-> 0, exportClause |-> 0, elements |-> <<>>, type |-> 0, colonToken |-> -1],
     [kind |-> "EndOfFileToken", pos |-> 28, start |-> 28, end |-> 28, children |-> <<>>,
      expression |-> 0, name |-> 0, typeArguments |-> <<>>, arguments |-> <<>>, flags |-> {},
      initializer |-> 0, tagName |-> 0, typeParameters |-> <<>>, importClause |-> 0,
      namedBindings |-> 0, exportClause |-> 0, elements |-> <<>>, type |-> 0, colonToken |-> -1]
   >>]

\* f<"<">()
DocNoClose ==
  [text |-> <<"f", "<", "\"", "<", "\"", ">", "(", ")">>,
   nodes |-> <<
     [kind |-> "SourceFile", pos |-> 0, start |-> 0, end |-> 8, children |-> <<2, 7>>,
      expression |-> 0, name |-> 0, typeArguments |-> <<>>, arguments |-> <<>>, flags |-> {},
      initializer |-> 0, tagName |-> 0, typeParameters |-> <<>>, importClause |-> 0,
      namedBindings |-> 0, exportClause |-> 0, elements |-> <<>>, type |-> 0, colonToken |-> -1],
     [kind |-> "ExpressionStatement", pos |-> 0, start |-> 0, end |-> 8, children |-> <<3>>,
      expression |-> 3, name |-> 0, typeArguments |-> <<>>, arguments |-> <<>>, flags |-> {},
      initializer |-> 0, tagName |-> 0, typeParameters |-> <<>>, importClause |-> 0,
      namedBindings |-> 0, exportClause |-> 0, elements |-> <<>>, type |-> 0, colonToken |-> -1],
     [kind |-> "CallExpression", pos |-> 0, start |-> 0, end |-> 8, children |-> <<4, 5>>,
      expression |-> 4, name |-> 0, typeArguments |-> <<5>>, arguments |-> <<>>, flags |-> {},
      initializer |-> 0, tagName |-> 0, typeParameters |-> <<>>, importClause |-> 0,
      namedBindings |-> 0, exportClause |-> 0, elements |-> <<>>, type |-> 0, colonToken |-> -1],
     [kind |-> "Identifier", pos |-> 0, start |-> 0, end |-> 1, children |-> <<>>,
      expression |-> 0, name |-> 0, typeArguments |-> <<>>, arguments |-> <<>>, flags |-> {},
      initializer |-> 0, tagName |-> 0, typeParameters |-> <<>>, importClause |-> 0,
      namedBindings |-> 0, exportClause |-> 0, elements |-> <<>>, type |-> 0, colonToken |-> -1],
     [kind |-> "LiteralType", pos |-> 2, start |-> 2, end |-> 5, children |-> <<6>>,
      expression |-> 0, name |-> 0, typeArguments |-> <<>>, arguments |-> <<>>, flags |-> {},
      initializer |-> 0, tagName |-> 0, typeParameters |-> <<>>, importClause |-> 0,
      namedBindings |-> 0, exportClause |-> 0, elements |-> <<>>, type |-> 0, colonToken |-> -1],
     [kind |-> "StringLiteral", pos |-> 2, start |-> 2, end |-> 5, children |-> <<>>,
      expression |-> 0, name |-> 0, typeArguments |-> <<>>, arguments |-> <<>>, flags |-> {},
      initializer |-> 0, tagName |-> 0, typeParameters |-> <<>>, importClause |-> 0,
      namedBindings |-> 0, exportClause |-> 0, elements |-> <<>>, type |-> 0, colonToken |-> -1],
     [kind |-> "EndOfFileToken", pos |-> 8, start |-> 8, end |-> 8, children |-> <<>>,
      expression |-> 0, name |-> 0, typeArguments |-> <<>>, arguments |-> <<>>, flags |-> {},
      initializer |-> 0, tagName |-> 0, typeParameters |-> <<>>, importClause |-> 0,
      namedBindings |-> 0, exportClause |-> 0, elements |-> <<>>, type |-> 0, colonToken |-> -1]
   >>]

\* function f<T="<">(){}
DocFnNoClose ==
  [text |-> <<"f", "u", "n", "c", "t", "i", "o", "n", " ", "f", "<", "T", "=", "\"", "<", "\"", ">", "(", ")", "{", "}">>,
   nodes |-> <<
     [kind |-> "SourceFile", pos |-> 0, start |-> 0, end |-> 21, children |-> <<2, 9>>,
      expression |-> 0, name |-> 0, typeArguments |-> <<>>, arguments |-> <<>>, flags |-> {},
      initializer |-> 0, tagName |-> 0, typeParameters |-> <<>>, importClause |-> 0,
      namedBindings |-> 0, exportClause |-> 0, elements |-> <<>>, type |-> 0, colonToken |-> -1],
     [kind |-> "FunctionDeclaration", pos |-> 0, start |-> 0, end |-> 21, children |-> <<3, 4, 8>>,
      expression |-> 0, name |-> 3, typeArguments |-> <<>>, arguments |-> <<>>, flags |-> {},
      initializer |-> 0, tagName |-> 0, typeParameters |-> <<4>>, importClause |-> 0,
      namedBindings |-> 0, exportClause |-> 0, elements |-> <<>>, type |-> 0, colonToken |-> -1],
     [kind |-> "Identifier", pos |-> 8, start |-> 9, end |-> 10, children |-> <<>>,
      expression |-> 0, name |-> 0, typeArguments |-> <<>>, arguments |-> <<>>, flags |-> {},
      initializer |-> 0, tagName |-> 0, typeParameters |-> <<>>, importClause |-> 0,
      namedBindings |-> 0, exportClause |-> 0, elements |-> <<>>, type |-> 0, colonToken |-> -1],
     [kind |-> "TypeParameter", pos |-> 11, start |-> 11, end |-> 16, children |-> <<5, 6>>,
      expression |-> 0, name |-> 5, typeArguments |-> <<>>, arguments |-> <<>>, flags |-> {},
      initializer |-> 0, tagName |-> 0, typeParameters |-> <<>>, importClause |-> 0,
      namedBindings |-> 0, exportClause |-> 0, elements |-> <<>>, type |-> 0, colonToken |-> -1],
     [kind |-> "Identifier", pos |-> 11, start |-> 11, end |-> 12, children |-> <<>>,
      expression |-> 0, name |-> 0, typeArguments |-> <<>>, arguments |-> <<>>, flags |-> {},
      initializer |-> 0, tagName |-> 0, typeParameters |-> <<>>, importClause |-> 0,
      namedBindings |-> 0, exportClause |-> 0, elements |-> <<>>, type |-> 0, colonToken |-> -1],
     [kind |-> "LiteralType", pos |-> 13, start |-> 13, end |-> 16, children |-> <<7>>,
      expression |-> 0, name |-> 0, typeArguments |-> <<>>, arguments |-> <<>>, flags |-> {},
      initializer |-> 0, tagName |-> 0, typeParameters |-> <<>>, importClause |-> 0,
      namedBindings |-> 0, exportClause |-> 0, elements |-> <<>>, type |-> 0, colonToken |-> -1],
     [kind |-> "StringLiteral", pos |-> 13, start |-> 13, end |-> 16, children |-> <<>>,
      expression |-> 0, name |-> 0, typeArguments |-> <<>>, arguments |-> <<>>, flags |-> {},
      initializer |-> 0, tagName |-> 0, typeParameters |-> <<>>, importClause |-> 0,
      namedBindings |-> 0, exportClause |-> 0, elements |-> <<>>, type |-> 0, colonToken |-> -1],
     [kind |-> "Block", pos |-> 19, start |-> 19, end |-> 21, children |-> <<>>,
      expression |-> 0, name |-> 0, typeArguments |-> <<>>, arguments |-> <<>>, flags |-> {},
      initializer |-> 0, tagName |-> 0, typeParameters |-> <<>>, importClause |-> 0,
      namedBindings |-> 0, exportClause |-> 0, elements |-> <<>>, type |-> 0, colonToken |-> -1],
     [kind |-> "EndOfFileToken", pos |-> 21, start |-> 21, end |-> 21, children |-> <<>>,
      expression |-> 0, name |-> 0, typeArguments |-> <<>>, arguments |-> <<>>, flags |-> {},
      initializer |-> 0, tagName |-> 0, typeParameters |-> <<>>, importClause |-> 0,
      namedBindings |-> 0, exportClause |-> 0, elements |-> <<>>, type |-> 0, colonToken |-> -1]
   >>]

\* function f<T>(){}
DocFn ==
  [text |-> <<"f", "u", "n", "c", "t", "i", "o", "n", " ", "f", "<", "T", ">", "(", ")", "{", "}">>,
   nodes |-> <<
     [kind |-> "SourceFile", pos |-> 0, start |-> 0, end |-> 17, children |-> <<2, 7>>,
      expression |-> 0, name |-> 0, typeArguments |-> <<>>, arguments |-> <<>>, flags |-> {},
      initializer |-> 0, tagName |-> 0, typeParameters |-> <<>>, importClause |-> 0,
      namedBindings |-> 0, exportClause |-> 0, elements |-> <<>>, type |-> 0, colonToken |-> -1],
     [kind |-> "FunctionDeclaration", pos |-> 0, start |-> 0, end |-> 17, children |-> <<3, 4, 6>>,
      expression |-> 0, name |-> 3, typeArguments |-> <<>>, arguments |-> <<>>, flags |-> {},
      initializer |-> 0, tagName |-> 0, typeParameters |-> <<4>>, importClause |-> 0,
      namedBindings |-> 0, exportClause |-> 0, elements |-> <<>>, type |-> 0, colonToken |-> -1],
     [kind |-> "Identifier", pos |-> 8, start |-> 9, end |-> 10, children |-> <<>>,
      expression |-> 0, name |-> 0, typeArguments |-> <<>>, arguments |-> <<>>, flags |-> {},
      initializer |-> 0, tagName |-> 0, typeParameters |-> <<>>, importClause |-> 0,
      namedBindings |-> 0, exportClause |-> 0, elements |-> <<>>, type |-> 0, colonToken |-> -1],
     [kind |-> "TypeParameter", pos |-> 11, start |-> 11, end |-> 12, children |-> <<5>>,
      expression |-> 0, name |-> 5, typeArguments |-> <<>>, arguments |-> <<>>, flags |-> {},
      initializer |-> 0, tagName |-> 0, typeParameters |-> <<>>, importClause |-> 0,
      namedBindings |-> 0, exportClause |-> 0, elements |-> <<>>, type |-> 0, colonToken |-> -1],
     [kind |-> "Identifier", pos |-> 11, start |-> 11, end |-> 12, children |-> <<>>,
      expression |-> 0, name |-> 0, typeArguments |-> <<>>, arguments |-> <<>>, flags |-> {},
      initializer |-> 0, tagName |-> 0, typeParameters |-> <<>>, importClause |-> 0,
      namedBindings |-> 0, exportClause |-> 0, elements |-> <<>>, type |-> 0, colonToken |-> -1],
     [kind |-> "Block", pos |-> 15, start |-> 15, end |-> 17, children |-> <<>>,
      expression |-> 0, name |-> 0, typeArguments |-> <<>>, arguments |-> <<>>, flags |-> {},
      initializer |-> 0, tagName |-> 0, typeParameters |-> <<>>, importClause |-> 0,
      namedBindings |-> 0, exportClause |-> 0, elements |-> <<>>, type |-> 0, colonToken |-> -1],
     [kind |-> "EndOfFileToken", pos |-> 17, start |-> 17, end |-> 17, children |-> <<>>,
      expression |-> 0, name |-> 0, typeArguments |-> <<>>, arguments |-> <<>>, flags |-> {},
      initializer |-> 0, tagName |-> 0, typeParameters |-> <<>>, importClause |-> 0,
      namedBindings |-> 0, exportClause |-> 0, elements |-> <<>>, type |-> 0, colonToken |-> -1]
   >>]

\* f<M<K>>()
DocNested ==
  [text |-> <<"f", "<", "M", "<", "K", ">", ">", "(", ")">>,
   nodes |-> <<
     [kind |-> "SourceFile", pos |-> 0, start |-> 0, end |-> 9, children |-> <<2, 9>>,
      expression |-> 0, name |-> 0, typeArguments |-> <<>>, arguments |-> <<>>, flags |-> {},
      initializer |-> 0, tagName |-> 0, typeParameters |-> <<>>, importClause |-> 0,
      namedBindings |-> 0, exportClause |-> 0, elements |-> <<>>, type |-> 0, colonToken |-> -1],
     [kind |-> "ExpressionStatement", pos |-> 0, start |-> 0, end |-> 9, children |-> <<3>>,
      expression |-> 3, name |-> 0, typeArguments |-> <<>>, arguments |-> <<>>, flags |-> {},
      initializer |-> 0, tagName |-> 0, typeParameters |-> <<>>, importClause |-> 0,
      namedBindings |-> 0, exportClause |-> 0, elements |-> <<>>, type |-> 0, colonToken |-> -1],
     [kind |-> "CallExpression", pos |-> 0, start |-> 0, end |-> 9, children |-> <<4, 5>>,
      expression |-> 4, name |-> 0, typeArguments |-> <<5>>, arguments |-> <<>>, flags |-> {},
      initializer |-> 0, tagName |-> 0, typeParameters |-> <<>>, importClause |-> 0,
      namedBindings |-> 0, exportClause |-> 0, elements |-> <<>>, type |-> 0, colonToken |-> -1],
     [kind |-> "Identifier", pos |-> 0, start |-> 0, end |-> 1, children |-> <<>>,
      expression |-> 0, name |-> 0, typeArguments |-> <<>>, arguments |-> <<>>, flags |-> {},
      initializer |-> 0, tagName |-> 0, typeParameters |-> <<>>, importClause |-> 0,
      namedBindings |-> 0, exportClause |-> 0, elements |-> <<>>, type |-> 0, colonToken |-> -1],
     [kind |-> "TypeReference", pos |-> 2, start |-> 2, end |-> 6, children |-> <<6, 7>>,
      expression |-> 0, name |-> 6, typeArguments |-> <<7>>, arguments |-> <<>>, flags |-> {},
      initializer |-> 0, tagName |-> 0, typeParameters |-> <<>>, importClause |-> 0,
      namedBindings |-> 0, exportClause |-> 0, elements |-> <<>>, type |-> 0, colonToken |-> -1],
     [kind |-> "Identifier", pos |-> 2, start |-> 2, end |-> 3, children |-> <<>>,
      expression |-> 0, name |-> 0, typeArguments |-> <<>>, arguments |-> <<>>, flags |-> {},
      initializer |-> 0, tagName |-> 0, typeParameters |-> <<>>, importClause |-> 0,
      namedBindings |-> 0, exportClause |-> 0, elements |-> <<>>, type |-> 0, colonToken |-> -1],
     [kind |-> "TypeReference", pos |-> 4, start |-> 4, end |-> 5, children |-> <<8>>,
      expression |-> 0, name |-> 8, typeArguments |-> <<>>, arguments |-> <<>>, flags |-> {},
      initializer |-> 0, tagName |-> 0, typeParameters |-> <<>>, importClause |-> 0,
      namedBindings |-> 0, exportClause |-> 0, elements |-> <<>>, type |-> 0, colonToken |-> -1],
     [kind |-> "Identifier", pos |-> 4, start |-> 4, end |-> 5, children |-> <<>>,
      expression |-> 0, name |-> 0, typeArguments |-> <<>>, arguments |-> <<>>, flags |-> {},
      initializer |-> 0, tagName |-> 0, typeParameters |-> <<>>, importClause |-> 0,
      namedBindings |-> 0, exportClause |-> 0, elements |-> <<>>, type |-> 0, colonToken |-> -1],
     [kind |-> "EndOfFileToken", pos |-> 9, start |-> 9, end |-> 9, children |-> <<>>,
      expression |-> 0, name |-> 0, typeArguments |-> <<>>, arguments |-> <<>>, flags |-> {},
      initializer |-> 0, tagName |-> 0, typeParameters |-> <<>>, importClause |-> 0,
      namedBindings |-> 0, exportClause |-> 0, elements |-> <<>>, type |-> 0, colonToken |-> -1]
   >>]

\* f<()=>T>()
DocArrowArg ==
  [text |-> <<"f", "<", "(", ")", "=", ">", "T", ">", "(", ")">>,
   nodes |-> <<
     [kind |-> "SourceFile", pos |-> 0, start |-> 0, end |-> 10, children |-> <<2, 8>>,
      expression |-> 0, name |-> 0, typeArguments |-> <<>>, arguments |-> <<>>, flags |-> {},
      initializer |-> 0, tagName |-> 0, typeParameters |-> <<>>, importClause |-> 0,
      namedBindings |-> 0, exportClause |-> 0, elements |-> <<>>, type |-> 0, colonToken |-> -1],
     [kind |-> "ExpressionStatement", pos |-> 0, start |-> 0, end |-> 10, children |-> <<3>>,
      expression |-> 3, name |-> 0, typeArguments |-> <<>>, arguments |-> <<>>, flags |-> {},
      initializer |-> 0, tagName |-> 0, typeParameters |-> <<>>, importClause |-> 0,
      namedBindings |-> 0, exportClause |-> 0, elements |-> <<>>, type |-> 0, colonToken |-> -1],
     [kind |-> "CallExpression", pos |-> 0, start |-> 0, end |-> 10, children |-> <<4, 5>>,
      expression |-> 4, name |-> 0, typeArguments |-> <<5>>, arguments |-> <<>>, flags |-> {},
      initializer |-> 0, tagName |-> 0, typeParameters |-> <<>>, importClause |-> 0,
      namedBindings |-> 0, exportClause |-> 0, elements |-> <<>>, type |-> 0, colonToken |-> -1],
     [kind |-> "Identifier", pos |-> 0, start |-> 0, end |-> 1, children |-> <<>>,
      expression |-> 0, name |-> 0, typeArguments |-> <<>>, arguments |-> <<>>, flags |-> {},
      initializer |-> 0, tagName |-> 0, typeParameters |-> <<>>, importClause |-> 0,
      namedBindings |-> 0, exportClause |-> 0, elements |-> <<>>, type |-> 0, colonToken |-> -1],
     [kind |-> "FunctionType", pos |-> 2, start |-> 2, end |-> 7, children |-> <<6>>,
      expression |-> 0, name |-> 0, typeArguments |-> <<>>, arguments |-> <<>>, flags |-> {},
      initializer |-> 0, tagName |-> 0, typeParameters |-> <<>>, importClause |-> 0,
      namedBindings |-> 0, exportClause |-> 0, elements |-> <<>>, type |-> 0, colonToken |-> -1],
     [kind |-> "TypeReference", pos |-> 6, start |-> 6, end |-> 7, children |-> <<7>>,
      expression |-> 0, name |-> 7, typeArguments |-> <<>>, arguments |-> <<>>, flags |-> {},
      initializer |-> 0, tagName |-> 0, typeParameters |-> <<>>, importClause |-> 0,
      namedBindings |-> 0, exportClause |-> 0, elements |-> <<>>, type |-> 0, colonToken |-> -1],
     [kind |-> "Identifier", pos |-> 6, start |-> 6, end |-> 7, children |-> <<>>,
      expression |-> 0, name |-> 0, typeArguments |-> <<>>, arguments |-> <<>>, flags |-> {},
      initializer |-> 0, tagName |-> 0, typeParameters |-> <<>>, importClause |-> 0,
      namedBindings |-> 0, exportClause |-> 0, elements |-> <<>>, type |-> 0, colonToken |-> -1],
     [kind |-> "EndOfFileToken", pos |-> 10, start |-> 10, end |-> 10, children |-> <<>>,
      expression |-> 0, name |-> 0, typeArguments |-> <<>>, arguments |-> <<>>, flags |-> {},
      initializer |-> 0, tagName |-> 0, typeParameters |-> <<>>, importClause |-> 0,
      namedBindings |-> 0, exportClause |-> 0, elements |-> <<>>, type |-> 0, colonToken |-> -1]
   >>]

\* React.memo<P>(f)
DocReactTyped ==
  [text |-> <<"R", "e", "a", "c", "t", ".", "m", "e", "m", "o", "<", "P", ">", "(", "f", ")">>,
   nodes |-> <<
     [kind |-> "SourceFile", pos |-> 0, start |-> 0, end |-> 16, children |-> <<2, 10>>,
      expression |-> 0, name |-> 0, typeArguments |-> <<>>, arguments |-> <<>>, flags |-> {},
      initializer |-> 0, tagName |-> 0, typeParameters |-> <<>>, importClause |-> 0,
      namedBindings |-> 0, exportClause |-> 0, elements |-> <<>>, type |-> 0, colonToken |-> -1],
     [kind |-> "ExpressionStatement", pos |-> 0, start |-> 0, end |-> 16, children |-> <<3>>,
      expression |-> 3, name |-> 0, typeArguments |-> <<>>, arguments |-> <<>>, flags |-> {},
      initializer |-> 0, tagName |-> 0, typeParameters |-> <<>>, importClause |-> 0,
      namedBindings |-> 0, exportClause |-> 0, elements |-> <<>>, type |-> 0, colonToken |-> -1],
     [kind |-> "CallExpression", pos |-> 0, start |-> 0, end |-> 16, children |-> <<4, 7, 9>>,
      expression |-> 4, name |-> 0, typeArguments |-> <<7>>, arguments |-> <<9>>, flags |-> {},
      initializer |-> 0, tagName |-> 0, typeParameters |-> <<>>, importClause |-> 0,
      namedBindings |-> 0, exportClause |-> 0, elements |-> <<>>, type |-> 0, colonToken |-> -1],
     [kind |-> "PropertyAccessExpression", pos |-> 0, start |-> 0, end |-> 10, children |-> <<5, 6>>,
      expression |-> 5, name |-> 6, typeArguments |-> <<>>, arguments |-> <<>>, flags |-> {},
      initializer |-> 0, tagName |-> 0, typeParameters |-> <<>>, importClause |-> 0,
      namedBindings |-> 0, exportClause |-> 0, elements |-> <<>>, type |-> 0, colonToken |-> -1],
     [kind |-> "Identifier", pos |-> 0, start |-> 0, end |-> 5, children |-> <<>>,
      expression |-> 0, name |-> 0, typeArguments |-> <<>>, arguments |-> <<>>, flags |-> {},
      initializer |-> 0, tagName |-> 0, typeParameters |-> <<>>, importClause |-> 0,
      namedBindings |-> 0, exportClause |-> 0, elements |-> <<>>, type |-> 0, colonToken |-> -1],
     [kind |-> "Identifier", pos |-> 6, start |-> 6, end |-> 10, children |-> <<>>,
      expression |-> 0, name |-> 0, typeArguments |-> <<>>, arguments |-> <<>>, flags |-> {},
      initializer |-> 0, tagName |-> 0, typeParameters |-> <<>>, importClause |-> 0,
      namedBindings |-> 0, exportClause |-> 0, elements |-> <<>>, type |-> 0, colonToken |-> -1],
     [kind |-> "TypeReference", pos |-> 11, start |-> 11, end |-> 12, children |-> <<8>>,
      expression |-> 0, name |-> 8, typeArguments |-> <<>>, arguments |-> <<>>, flags |-> {},
      initializer |-> 0, tagName |-> 0, typeParameters |-> <<>>, importClause |-> 0,
      namedBindings |-> 0, exportClause |-> 0, elements |-> <<>>, type |-> 0, colonToken |-> -1],
     [kind |-> "Identifier", pos |-> 11, start |-> 11, end |-> 12, children |-> <<>>,
      expression |-> 0, name |-> 0, typeArguments |-> <<>>, arguments |-> <<>>, flags |-> {},
      initializer |-> 0, tagName |-> 0, typeParameters |-> <<>>, importClause |-> 0,
      namedBindings |-> 0, exportClause |-> 0, elements |-> <<>>, type |-> 0, colonToken |-> -1],
     [kind |-> "Identifier", pos |-> 14, start |-> 14, end |-> 15, children |-> <<>>,
      expression |-> 0, name |-> 0, typeArguments |-> <<>>, arguments |-> <<>>, flags |-> {},
      initializer |-> 0, tagName |-> 0, typeParameters |-> <<>>, importClause |-> 0,
      namedBindings |-> 0, exportClause |-> 0, elements |-> <<>>, type |-> 0, colonToken |-> -1],
     [kind |-> "EndOfFileToken", pos |-> 16, start |-> 16, end |-> 16, children |-> <<>>,
      expression |-> 0, name |-> 0, typeArguments |-> <<>>, arguments |-> <<>>, flags |-> {},
      initializer |-> 0, tagName |-> 0, typeParameters |-> <<>>, importClause |-> 0,
      namedBindings |-> 0, exportClause |-> 0, elements |-> <<>>, type |-> 0, colonToken |-> -1]
   >>]

\* "use strict"
DocStrict ==
  [text |-> <<"\"", "u", "s", "e", " ", "s", "t", "r", "i", "c", "t", "\"">>,
   nodes |-> <<
     [kind |-> "SourceFile", pos |-> 0, start |-> 0, end |-> 12, children |-> <<2, 4>>,
      expression |-> 0, name |-> 0, typeArguments |-> <<>>, arguments |-> <<>>, flags |-> {},
      initializer |-> 0, tagName |-> 0, typeParameters |-> <<>>, importClause |-> 0,
      namedBindings |-> 0, exportClause |-> 0, elements |-> <<>>, type |-> 0, colonToken |-> -1],
     [kind |-> "ExpressionStatement", pos |-> 0, start |-> 0, end |-> 12, children |-> <<3>>,
      expression |-> 3, name |-> 0, typeArguments |-> <<>>, arguments |-> <<>>, flags |-> {},
      initializer |-> 0, tagName |-> 0, typeParameters |-> <<>>, importClause |-> 0,
      namedBindings |-> 0, exportClause |-> 0, elements |-> <<>>, type |-> 0, colonToken |-> -1],
     [kind |-> "StringLiteral", pos |-> 0, start |-> 0, end |-> 12, children |-> <<>>,
      expression |-> 0, name |-> 0, typeArguments |-> <<>>, arguments |-> <<>>, flags |-> {},
      initializer |-> 0, tagName |-> 0, typeParameters |-> <<>>, importClause |-> 0,
      namedBindings |-> 0, exportClause |-> 0, elements |-> <<>>, type |-> 0, colonToken |-> -1],
     [kind |-> "EndOfFileToken", pos |-> 12, start |-> 12, end |-> 12, children |-> <<>>,
      expression |-> 0, name |-> 0, typeArguments |-> <<>>, arguments |-> <<>>, flags |-> {},
      initializer |-> 0, tagName |-> 0, typeParameters |-> <<>>, importClause |-> 0,
      namedBindings |-> 0, exportClause |-> 0, elements |-> <<>>, type |-> 0, colonToken |-> -1]
   >>]

\* 'use server';
DocServer ==
  [text |-> <<"'", "u", "s", "e", " ", "s", "e", "r", "v", "e", "r", "'", ";">>,
   nodes |-> <<
     [kind |-> "SourceFile", pos |-> 0, start |-> 0, end |-> 13, children |-> <<2, 4>>,
      expression |-> 0, name |-> 0, typeArguments |-> <<>>, arguments |-> <<>>, flags |-> {},
      initializer |-> 0, tagName |-> 0, typeParameters |-> <<>>, importClause |-> 0,
      namedBindings |-> 0, exportClause |-> 0, elements |-> <<>>, type |-> 0, colonToken |-> -1],
     [kind |-> "ExpressionStatement", pos |-> 0, start |-> 0, end |-> 13, children |-> <<3>>,
      expression |-> 3, name |-> 0, typeArguments |-> <<>>, arguments |-> <<>>, flags |-> {},
      initializer |-> 0, tagName |-> 0, typeParameters |-> <<>>, importClause |-> 0,
      namedBindings |-> 0, exportClause |-> 0, elements |-> <<>>, type |-> 0, colonToken |-> -1],
     [kind |-> "StringLiteral", pos |-> 0, start |-> 0, end |-> 12, children |-> <<>>,
      expression |-> 0, name |-> 0, typeArguments |-> <<>>, arguments |-> <<>>, flags |-> {},
      initializer |-> 0, tagName |-> 0, typeParameters |-> <<>>, importClause |-> 0,
      namedBindings |-> 0, exportClause |-> 0, elements |-> <<>>, type |-> 0, colonToken |-> -1],
     [kind |-> "EndOfFileToken", pos |-> 13, start |-> 13, end |-> 13, children |-> <<>>,
      expression |-> 0, name |-> 0, typeArguments |-> <<>>, arguments |-> <<>>, flags |-> {},
      initializer |-> 0, tagName |-> 0, typeParameters |-> <<>>, importClause |-> 0,
      namedBindings |-> 0, exportClause |-> 0, elements |-> <<>>, type |-> 0, colonToken |-> -1]
   >>]

\* <a key="k" b={c}/>
DocJsxAttr ==
  [text |-> <<"<", "a", " ", "k", "e", "y", "=", "\"", "k", "\"", " ", "b", "=", "{", "c", "}", "/", ">">>,
   nodes |-> <<
     [kind |-> "SourceFile", pos |-> 0, start |-> 0, end |-> 18, children |-> <<2, 13>>,
      expression |-> 0, name |-> 0, typeArguments |-> <<>>, arguments |-> <<>>, flags |-> {},
      initializer |-> 0, tagName |-> 0, typeParameters |-> <<>>, importClause |-> 0,
      namedBindings |-> 0, exportClause |-> 0, elements |-> <<>>, type |-> 0, colonToken |-> -1],
     [kind |-> "ExpressionStatement", pos |-> 0, start |-> 0, end |-> 18, children |-> <<3>>,
      expression |-> 3, name |-> 0, typeArguments |-> <<>>, arguments |-> <<>>, flags |-> {},
      initializer |-> 0, tagName |-> 0, typeParameters |-> <<>>, importClause |-> 0,
      namedBindings |-> 0, exportClause |-> 0, elements |-> <<>>, type |-> 0, colonToken |-> -1],
     [kind |-> "JsxSelfClosingElement", pos |-> 0, start |-> 0, end |-> 18, children |-> <<4, 5>>,
      expression |-> 0, name |-> 0, typeArguments |-> <<>>, arguments |-> <<>>, flags |-> {},
      initializer |-> 0, tagName |-> 4, typeParameters |-> <<>>, importClause |-> 0,
      namedBindings |-> 0, exportClause |-> 0, elements |-> <<>>, type |-> 0, colonToken |-> -1],
     [kind |-> "Identifier", pos |-> 1, start |-> 1, end |-> 2, children |-> <<>>,
      expression |-> 0, name |-> 0, typeArguments |-> <<>>, arguments |-> <<>>, flags |-> {},
      initializer |-> 0, tagName |-> 0, typeParameters |-> <<>>, importClause |-> 0,
      namedBindings |-> 0, exportClause |-> 0, elements |-> <<>>, type |-> 0, colonToken |-> -1],
     [kind |-> "JsxAttributes", pos |-> 2, start |-> 3, end |-> 16, children |-> <<6, 9>>,
      expression |-> 0, name |-> 0, typeArguments |-> <<>>, arguments |-> <<>>, flags |-> {},
      initializer |-> 0, tagName |-> 0, typeParameters |-> <<>>, importClause |-> 0,
      namedBindings |-> 0, exportClause |-> 0, elements |-> <<>>, type |-> 0, colonToken |-> -1],
     [kind |-> "JsxAttribute", pos |-> 2, start |-> 3, end |-> 10, children |-> <<7, 8>>,
      expression |-> 0, name |-> 7, typeArguments |-> <<>>, arguments |-> <<>>, flags |-> {},
      initializer |-> 8, tagName |-> 0, typeParameters |-> <<>>, importClause |-> 0,
      namedBindings |-> 0, exportClause |-> 0, elements |-> <<>>, type |-> 0, colonToken |-> -1],
     [kind |-> "Identifier", pos |-> 3, start |-> 3, end |-> 6, children |-> <<>>,
      expression |-> 0, name |-> 0, typeArguments |-> <<>>, arguments |-> <<>>, flags |-> {},
      initializer |-> 0, tagName |-> 0, typeParameters |-> <<>>, importClause |-> 0,
      namedBindings |-> 0, exportClause |-> 0, elements |-> <<>>, type |-> 0, colonToken |-> -1],
     [kind |-> "StringLiteral", pos |-> 7, start |-> 7, end |-> 10, children |-> <<>>,
      expression |-> 0, name |-> 0, typeArguments |-> <<>>, arguments |-> <<>>, flags |-> {},
      initializer |-> 0, tagName |-> 0, typeParameters |-> <<>>, importClause |-> 0,
      namedBindings |-> 0, exportClause |-> 0, elements |-> <<>>, type |-> 0, colonToken |-> -1],
     [kind |-> "JsxAttribute", pos |-> 10, start |-> 11, end |-> 16, children |-> <<10, 11>>,
      expression |-> 0, name |-> 10, typeArguments |-> <<>>, arguments |-> <<>>, flags |-> {},
      initializer |-> 11, tagName |-> 0, typeParameters |-> <<>>, importClause |-> 0,
      namedBindings |-> 0, exportClause |-> 0, elements |-> <<>>, type |-> 0, colonToken |-> -1],
     [kind |-> "Identifier", pos |-> 10, start |-> 11, end |-> 12, children |-> <<>>,
      expression |-> 0, name |-> 0, typeArguments |-> <<>>, arguments |-> <<>>, flags |-> {},
      initializer |-> 0, tagName |-> 0, typeParameters |-> <<>>, importClause |-> 0,
      namedBindings |-> 0, exportClause |-> 0, elements |-> <<>>, type |-> 0, colonToken |-> -1],
     [kind |-> "JsxExpression", pos |-> 13, start |-> 13, end |-> 16, children |-> <<12>>,
      expression |-> 12, name |-> 0, typeArguments |-> <<>>, arguments |-> <<>>, flags |-> {},
      initializer |-> 0, tagName |-> 0, typeParameters |-> <<>>, importClause |-> 0,
      namedBindings |-> 0, exportClause |-> 0, elements |-> <<>>, type |-> 0, colonToken |-> -1],
     [kind |-> "Identifier", pos |-> 14, start |-> 14, end |-> 15, children |-> <<>>,
      expression |-> 0, name |-> 0, typeArguments |-> <<>>, arguments |-> <<>>, flags |-> {},
      initializer |-> 0, tagName |-> 0, typeParameters |-> <<>>, importClause |-> 0,
      namedBindings |-> 0, exportClause |-> 0, elements |-> <<>>, type |-> 0, colonToken |-> -1],
     [kind |-> "EndOfFileToken", pos |-> 18, start |-> 18, end |-> 18, children |-> <<>>,
      expression |-> 0, name |-> 0, typeArguments |-> <<>>, arguments |-> <<>>, flags |-> {},
      initializer |-> 0, tagName |-> 0, typeParameters |-> <<>>, importClause |-> 0,
      namedBindings |-> 0, exportClause |-> 0, elements |-> <<>>, type |-> 0, colonToken |-> -1]
   >>]

\* //c\na
DocLineComment ==
  [text |-> <<"/", "/", "c", "\n", "a">>,
   nodes |-> <<
     [kind |-> "SourceFile", pos |-> 0, start |-> 4, end |-> 5, children |-> <<2, 4>>,
      expression |-> 0, name |-> 0, typeArguments |-> <<>>, arguments |-> <<>>, flags |-> {},
      initializer |-> 0, tagName |-> 0, typeParameters |-> <<>>, importClause |-> 0,
      namedBindings |-> 0, exportClause |-> 0, elements |-> <<>>, type |-> 0, colonToken |-> -1],
     [kind |-> "ExpressionStatement", pos |-> 0, start |-> 4, end |-> 5, children |-> <<3>>,
      expression |-> 3, name |-> 0, typeArguments |-> <<>>, arguments |-> <<>>, flags |-> {},
      initializer |-> 0, tagName |-> 0, typeParameters |-> <<>>, importClause |-> 0,
      namedBindings |-> 0, exportClause |-> 0, elements |-> <<>>, type |-> 0, colonToken |-> -1],
     [kind |-> "Identifier", pos |-> 0, start |-> 4, end |-> 5, children |-> <<>>,
      expression |-> 0, name |-> 0, typeArguments |-> <<>>, arguments |-> <<>>, flags |-> {},
      initializer |-> 0, tagName |-> 0, typeParameters |-> <<>>, importClause |-> 0,
      namedBindings |-> 0, exportClause |-> 0, elements |-> <<>>, type |-> 0, colonToken |-> -1],
     [kind |-> "EndOfFileToken", pos |-> 5, start |-> 5, end |-> 5, children |-> <<>>,
      expression |-> 0, name |-> 0, typeArguments |-> <<>>, arguments |-> <<>>, flags |-> {},
      initializer |-> 0, tagName |-> 0, typeParameters |-> <<>>, importClause |-> 0,
      namedBindings |-> 0, exportClause |-> 0, elements |-> <<>>, type |-> 0, colonToken |-> -1]
   >>]

\* a\n/*c*/b
DocLeadComment ==
  [text |-> <<"a", "\n", "/", "*", "c", "*", "/", "b">>,
   nodes |-> <<
     [kind |-> "SourceFile", pos |-> 0, start |-> 0, end |-> 8, children |-> <<2, 4, 6>>,
      expression |-> 0, name |-> 0, typeArguments |-> <<>>, arguments |-> <<>>, flags |-> {},
      initializer |-> 0, tagName |-> 0, typeParameters |-> <<>>, importClause |-> 0,
      namedBindings |-> 0, exportClause |-> 0, elements |-> <<>>, type |-> 0, colonToken |-> -1],
     [kind |-> "ExpressionStatement", pos |-> 0, start |-> 0, end |-> 1, children |-> <<3>>,
      expression |-> 3, name |-> 0, typeArguments |-> <<>>, arguments |-> <<>>, flags |-> {},
      initializer |-> 0, tagName |-> 0, typeParameters |-> <<>>, importClause |-> 0,
      namedBindings |-> 0, exportClause |-> 0, elements |-> <<>>, type |-> 0, colonToken |-> -1],
     [kind |-> "Identifier", pos |-> 0, start |-> 0, end |-> 1, children |-> <<>>,
      expression |-> 0, name |-> 0, typeArguments |-> <<>>, arguments |-> <<>>, flags |-> {},
      initializer |-> 0, tagName |-> 0, typeParameters |-> <<>>, importClause |-> 0,
      namedBindings |-> 0, exportClause |-> 0, elements |-> <<>>, type |-> 0, colonToken |-> -1],
     [kind |-> "ExpressionStatement", pos |-> 1, start |-> 7, end |-> 8, children |-> <<5>>,
      expression |-> 5, name |-> 0, typeArguments |-> <<>>, arguments |-> <<>>, flags |-> {},
      initializer |-> 0, tagName |-> 0, typeParameters |-> <<>>, importClause |-> 0,
      namedBindings |-> 0, exportClause |-> 0, elements |-> <<>>, type |-> 0, colonToken |-> -1],
     [kind |-> "Identifier", pos |-> 1, start |-> 7, end |-> 8, children |-> <<>>,
      expression |-> 0, name |-> 0, typeArguments |-> <<>>, arguments |-> <<>>, flags |-> {},
      initializer |-> 0, tagName |-> 0, typeParameters |-> <<>>, importClause |-> 0,
      namedBindings |-> 0, exportClause |-> 0, elements |-> <<>>, type |-> 0, colonToken |-> -1],
     [kind |-> "EndOfFileToken", pos |-> 8, start |-> 8, end |-> 8, children |-> <<>>,
      expression |-> 0, name |-> 0, typeArguments |-> <<>>, arguments |-> <<>>, flags |-> {},
      initializer |-> 0, tagName |-> 0, typeParameters |-> <<>>, importClause |-> 0,
      namedBindings |-> 0, exportClause |-> 0, elements |-> <<>>, type |-> 0, colonToken |-> -1]
   >>]

\* enum E{A /*c*/}
DocEnumComment ==
  [text |-> <<"e", "n", "u", "m", " ", "E", "{", "A", " ", "/", "*", "c", "*", "/", "}">>,
   nodes |-> <<
     [kind |-> "SourceFile", pos |-> 0, start |-> 0, end |-> 15, children |-> <<2, 6>>,
      expression |-> 0, name |-> 0, typeArguments |-> <<>>, arguments |-> <<>>, flags |-> {},
      initializer |-> 0, tagName |-> 0, typeParameters |-> <<>>, importClause |-> 0,
      namedBindings |-> 0, exportClause |-> 0, elements |-> <<>>, type |-> 0, colonToken |-> -1],
     [kind |-> "EnumDeclaration", pos |-> 0, start |-> 0, end |-> 15, children |-> <<3, 4>>,
      expression |-> 0, name |-> 3, typeArguments |-> <<>>, arguments |-> <<>>, flags |-> {},
      initializer |-> 0, tagName |-> 0, typeParameters |-> <<>>, importClause |-> 0,
      namedBindings |-> 0, exportClause |-> 0, elements |-> <<>>, type |-> 0, colonToken |-> -1],
     [kind |-> "Identifier", pos |-> 4, start |-> 5, end |-> 6, children |-> <<>>,
      expression |-> 0, name |-> 0, typeArguments |-> <<>>, arguments |-> <<>>, flags |-> {},
      initializer |-> 0, tagName |-> 0, typeParameters |-> <<>>, importClause |-> 0,
      namedBindings |-> 0, exportClause |-> 0, elements |-> <<>>, type |-> 0, colonToken |-> -1],
     [kind |-> "EnumMember", pos |-> 7, start |-> 7, end |-> 8, children |-> <<5>>,
      expression |-> 0, name |-> 5, typeArguments |-> <<>>, arguments |-> <<>>, flags |-> {},
      initializer |-> 0, tagName |-> 0, typeParameters |-> <<>>, importClause |-> 0,
      namedBindings |-> 0, exportClause |-> 0, elements |-> <<>>, type |-> 0, colonToken |-> -1],
     [kind |-> "Identifier", pos |-> 7, start |-> 7, end |-> 8, children |-> <<>>,
      expression |-> 0, name |-> 0, typeArguments |-> <<>>, arguments |-> <<>>, flags |-> {},
      initializer |-> 0, tagName |-> 0, typeParameters |-> <<>>, importClause |-> 0,
      namedBindings |-> 0, exportClause |-> 0, elements |-> <<>>, type |-> 0, colonToken |-> -1],
     [kind |-> "EndOfFileToken", pos |-> 15, start |-> 15, end |-> 15, children |-> <<>>,
      expression |-> 0, name |-> 0, typeArguments |-> <<>>, arguments |-> <<>>, flags |-> {},
      initializer |-> 0, tagName |-> 0, typeParameters |-> <<>>, importClause |-> 0,
      namedBindings |-> 0, exportClause |-> 0, elements |-> <<>>, type |-> 0, colonToken |-> -1]
   >>]

\* type A=/*c*/B
DocLostComment ==
  [text |-> <<"t", "y", "p", "e", " ", "A", "=", "/", "*", "c", "*", "/", "B">>,
   nodes |-> <<
     [kind |-> "SourceFile", pos |-> 0, start |-> 0, end |-> 13, children |-> <<2, 6>>,
      expression |-> 0, name |-> 0, typeArguments |-> <<>>, arguments |-> <<>>, flags |-> {},
      initializer |-> 0, tagName |-> 0, typeParameters |-> <<>>, importClause |-> 0,
      namedBindings |-> 0, exportClause |-> 0, elements |-> <<>>, type |-> 0, colonToken |-> -1],
     [kind |-> "TypeAliasDeclaration", pos |-> 0, start |-> 0, end |-> 13, children |-> <<3, 4>>,
      expression |-> 0, name |-> 3, typeArguments |-> <<>>, arguments |-> <<>>, flags |-> {},
      initializer |-> 0, tagName |-> 0, typeParameters |-> <<>>, importClause |-> 0,
      namedBindings |-> 0, exportClause |-> 0, elements |-> <<>>, type |-> 4, colonToken |-> -1],
     [kind |-> "Identifier", pos |-> 4, start |-> 5, end |-> 6, children |-> <<>>,
      expression |-> 0, name |-> 0, typeArguments |-> <<>>, arguments |-> <<>>, flags |-> {},
      initializer |-> 0, tagName |-> 0, typeParameters |-> <<>>, importClause |-> 0,
      namedBindings |-> 0, exportClause |-> 0, elements |-> <<>>, type |-> 0, colonToken |-> -1],
     [kind |-> "TypeReference", pos |-> 7, start |-> 12, end |-> 13, children |-> <<5>>,
      expression |-> 0, name |-> 5, typeArguments |-> <<>>, arguments |-> <<>>, flags |-> {},
      initializer |-> 0, tagName |-> 0, typeParameters |-> <<>>, importClause |-> 0,
      namedBindings |-> 0, exportClause |-> 0, elements |-> <<>>, type |-> 0, colonToken |-> -1],
     [kind |-> "Identifier", pos |-> 7, start |-> 12, end |-> 13, children |-> <<>>,
      expression |-> 0, name |-> 0, typeArguments |-> <<>>, arguments |-> <<>>, flags |-> {},
      initializer |-> 0, tagName |-> 0, typeParameters |-> <<>>, importClause |-> 0,
      namedBindings |-> 0, exportClause |-> 0, elements |-> <<>>, type |-> 0, colonToken |-> -1],
     [kind |-> "EndOfFileToken", pos |-> 13, start |-> 13, end |-> 13, children |-> <<>>,
      expression |-> 0, name |-> 0, typeArguments |-> <<>>, arguments |-> <<>>, flags |-> {},
      initializer |-> 0, tagName |-> 0, typeParameters |-> <<>>, importClause |-> 0,
      namedBindings |-> 0, exportClause |-> 0, elements |-> <<>>, type |-> 0, colonToken |-> -1]
   >>]

\* import type {FC,X} from "r"
DocImportType ==
  [text |-> <<"i", "m", "p", "o", "r", "t", " ", "t", "y", "p", "e", " ", "{", "F", "C", ",", "X", "}", " ", "f", "r", "o", "m", " ", "\"", "r", "\"">>,
   nodes |-> <<
     [kind |-> "SourceFile", pos |-> 0, start |-> 0, end |-> 27, children |-> <<2, 10>>,
      expression |-> 0, name |-> 0, typeArguments |-> <<>>, arguments |-> <<>>, flags |-> {},
      initializer |-> 0, tagName |-> 0, typeParameters |-> <<>>, importClause |-> 0,
      namedBindings |-> 0, exportClause |-> 0, elements |-> <<>>, type |-> 0, colonToken |-> -1],
     [kind |-> "ImportDeclaration", pos |-> 0, start |-> 0, end |-> 27, children |-> <<3, 9>>,
      expression |-> 0, name |-> 0, typeArguments |-> <<>>, arguments |-> <<>>, flags |-> {},
      initializer |-> 0, tagName |-> 0, typeParameters |-> <<>>, importClause |-> 3,
      namedBindings |-> 0, exportClause |-> 0, elements |-> <<>>, type |-> 0, colonToken |-> -1],
     [kind |-> "ImportClause", pos |-> 6, start |-> 7, end |-> 18, children |-> <<4>>,
      expression |-> 0, name |-> 0, typeArguments |-> <<>>, arguments |-> <<>>, flags |-> {"typeOnly"},
      initializer |-> 0, tagName |-> 0, typeParameters |-> <<>>, importClause |-> 0,
      namedBindings |-> 4, exportClause |-> 0, elements |-> <<>>, type |-> 0, colonToken |-> -1],
     [kind |-> "NamedImports", pos |-> 11, start |-> 12, end |-> 18, children |-> <<5, 7>>,
      expression |-> 0, name |-> 0, typeArguments |-> <<>>, arguments |-> <<>>, flags |-> {},
      initializer |-> 0, tagName |-> 0, typeParameters |-> <<>>, importClause |-> 0,
      namedBindings |-> 0, exportClause |-> 0, elements |-> <<5, 7>>, type |-> 0, colonToken |-> -1],
     [kind |-> "ImportSpecifier", pos |-> 13, start |-> 13, end |-> 15, children |-> <<6>>,
      expression |-> 0, name |-> 6, typeArguments |-> <<>>, arguments |-> <<>>, flags |-> {},
      initializer |-> 0, tagName |-> 0, typeParameters |-> <<>>, importClause |-> 0,
      namedBindings |-> 0, exportClause |-> 0, elements |-> <<>>, type |-> 0, colonToken |-> -1],
     [kind |-> "Identifier", pos |-> 13, start |-> 13, end |-> 15, children |-> <<>>,
      expression |-> 0, name |-> 0, typeArguments |-> <<>>, arguments |-> <<>>, flags |-> {},
      initializer |-> 0, tagName |-> 0, typeParameters |-> <<>>, importClause |-> 0,
      namedBindings |-> 0, exportClause |-> 0, elements |-> <<>>, type |-> 0, colonToken |-> -1],
     [kind |-> "ImportSpecifier", pos |-> 16, start |-> 16, end |-> 17, children |-> <<8>>,
      expression |-> 0, name |-> 8, typeArguments |-> <<>>, arguments |-> <<>>, flags |-> {},
      initializer |-> 0, tagName |-> 0, typeParameters |-> <<>>, importClause |-> 0,
      namedBindings |-> 0, exportClause |-> 0, elements |-> <<>>, type |-> 0, colonToken |-> -1],
     [kind |-> "Identifier", pos |-> 16, start |-> 16, end |-> 17, children |-> <<>>,
      expression |-> 0, name |-> 0, typeArguments |-> <<>>, arguments |-> <<>>, flags |-> {},
      initializer |-> 0, tagName |-> 0, typeParameters |-> <<>>, importClause |-> 0,
      namedBindings |-> 0, exportClause |-> 0, elements |-> <<>>, type |-> 0, colonToken |-> -1],
     [kind |-> "StringLiteral", pos |-> 23, start |-> 24, end |-> 27, children |-> <<>>,
      expression |-> 0, name |-> 0, typeArguments |-> <<>>, arguments |-> <<>>, flags |-> {},
      initializer |-> 0, tagName |-> 0, typeParameters |-> <<>>, importClause |-> 0,
      namedBindings |-> 0, exportClause |-> 0, elements |-> <<>>, type |-> 0, colonToken |-> -1],
     [kind |-> "EndOfFileToken", pos |-> 27, start |-> 27, end |-> 27, children |-> <<>>,
      expression |-> 0, name |-> 0, typeArguments |-> <<>>, arguments |-> <<>>, flags |-> {},
      initializer |-> 0, tagName |-> 0, typeParameters |-> <<>>, importClause |-> 0,
      namedBindings |-> 0, exportClause |-> 0, elements |-> <<>>, type |-> 0, colonToken |-> -1]
   >>]

\* export type {FC,X}
DocExportType ==
  [text |-> <<"e", "x", "p", "o", "r", "t", " ", "t", "y", "p", "e", " ", "{", "F", "C", ",", "X", "}">>,
   nodes |-> <<
     [kind |-> "SourceFile", pos |-> 0, start |-> 0, end |-> 18, children |-> <<2, 8>>,
      expression |-> 0, name |-> 0, typeArguments |-> <<>>, arguments |-> <<>>, flags |-> {},
      initializer |-> 0, tagName |-> 0, typeParameters |-> <<>>, importClause |-> 0,
      namedBindings |-> 0, exportClause |-> 0, elements |-> <<>>, type |-> 0, colonToken |-> -1],
     [kind |-> "ExportDeclaration", pos |-> 0, start |-> 0, end |-> 18, children |-> <<3>>,
      expression |-> 0, name |-> 0, typeArguments |-> <<>>, arguments |-> <<>>, flags |-> {"typeOnly"},
      initializer |-> 0, tagName |-> 0, typeParameters |-> <<>>, importClause |-> 0,
      namedBindings |-> 0, exportClause |-> 3, elements |-> <<>>, type |-> 0, colonToken |-> -1],
     [kind |-> "NamedExports", pos |-> 11, start |-> 12, end |-> 18, children |-> <<4, 6>>,
      expression |-> 0, name |-> 0, typeArguments |-> <<>>, arguments |-> <<>>, flags |-> {},
      initializer |-> 0, tagName |-> 0, typeParameters |-> <<>>, importClause |-> 0,
      namedBindings |-> 0, exportClause |-> 0, elements |-> <<4, 6>>, type |-> 0, colonToken |-> -1],
     [kind |-> "ExportSpecifier", pos |-> 13, start |-> 13, end |-> 15, children |-> <<5>>,
      expression |-> 0, name |-> 5, typeArguments |-> <<>>, arguments |-> <<>>, flags |-> {},
      initializer |-> 0, tagName |-> 0, typeParameters |-> <<>>, importClause |-> 0,
      namedBindings |-> 0, exportClause |-> 0, elements |-> <<>>, type |-> 0, colonToken |-> -1],
     [kind |-> "Identifier", pos |-> 13, start |-> 13, end |-> 15, children |-> <<>>,
      expression |-> 0, name |-> 0, typeArguments |-> <<>>, arguments |-> <<>>, flags |-> {},
      initializer |-> 0, tagName |-> 0, typeParameters |-> <<>>, importClause |-> 0,
      namedBindings |-> 0, exportClause |-> 0, elements |-> <<>>, type |-> 0, colonToken |-> -1],
     [kind |-> "ExportSpecifier", pos |-> 16, start |-> 16, end |-> 17, children |-> <<7>>,
      expression |-> 0, name |-> 7, typeArguments |-> <<>>, arguments |-> <<>>, flags |-> {},
      initializer |-> 0, tagName |-> 0, typeParameters |-> <<>>, importClause |-> 0,
      namedBindings |-> 0, exportClause |-> 0, elements |-> <<>>, type |-> 0, colonToken |-> -1],
     [kind |-> "Identifier", pos |-> 16, start |-> 16, end |-> 17, children |-> <<>>,
      expression |-> 0, name |-> 0, typeArguments |-> <<>>, arguments |-> <<>>, flags |-> {},
      initializer |-> 0, tagName |-> 0, typeParameters |-> <<>>, importClause |-> 0,
      namedBindings |-> 0, exportClause |-> 0, elements |-> <<>>, type |-> 0, colonToken |-> -1],
     [kind |-> "EndOfFileToken", pos |-> 18, start |-> 18, end |-> 18, children |-> <<>>,
      expression |-> 0, name |-> 0, typeArguments |-> <<>>, arguments |-> <<>>, flags |-> {},
      initializer |-> 0, tagName |-> 0, typeParameters |-> <<>>, importClause |-> 0,
      namedBindings |-> 0, exportClause |-> 0, elements |-> <<>>, type |-> 0, colonToken |-> -1]
   >>]

\* import {type FC,type X,y} from "r"
DocImportMixed ==
  [text |-> <<"i", "m", "p", "o", "r", "t", " ", "{", "t", "y", "p", "e", " ", "F", "C", ",", "t", "y", "p", "e", " ", "X", ",", "y", "}", " ", "f", "r", "o", "m", " ", "\"", "r", "\"">>,
   nodes |-> <<
     [kind |-> "SourceFile", pos |-> 0, start |-> 0, end |-> 34, children |-> <<2, 12>>,
      expression |-> 0, name |-> 0, typeArguments |-> <<>>, arguments |-> <<>>, flags |-> {},
      initializer |-> 0, tagName |-> 0, typeParameters |-> <<>>, importClause |-> 0,
      namedBindings |-> 0, exportClause |-> 0, elements |-> <<>>, type |-> 0, colonToken |-> -1],
     [kind |-> "ImportDeclaration", pos |-> 0, start |-> 0, end |-> 34, children |-> <<3, 11>>,
      expression |-> 0, name |-> 0, typeArguments |-> <<>>, arguments |-> <<>>, flags |-> {},
      initializer |-> 0, tagName |-> 0, typeParameters |-> <<>>, importClause |-> 3,
      namedBindings |-> 0, exportClause |-> 0, elements |-> <<>>, type |-> 0, colonToken |-> -1],
     [kind |-> "ImportClause", pos |-> 6, start |-> 7, end |-> 25, children |-> <<4>>,
      expression |-> 0, name |-> 0, typeArguments |-> <<>>, arguments |-> <<>>, flags |-> {},
      initializer |-> 0, tagName |-> 0, typeParameters |-> <<>>, importClause |-> 0,
      namedBindings |-> 4, exportClause |-> 0, elements |-> <<>>, type |-> 0, colonToken |-> -1],
     [kind |-> "NamedImports", pos |-> 6, start |-> 7, end |-> 25, children |-> <<5, 7, 9>>,
      expression |-> 0, name |-> 0, typeArguments |-> <<>>, arguments |-> <<>>, flags |-> {},
      initializer |-> 0, tagName |-> 0, typeParameters |-> <<>>, importClause |-> 0,
      namedBindings |-> 0, exportClause |-> 0, elements |-> <<5, 7, 9>>, type |-> 0, colonToken |-> -1],
     [kind |-> "ImportSpecifier", pos |-> 8, start |-> 8, end |-> 15, children |-> <<6>>,
      expression |-> 0, name |-> 6, typeArguments |-> <<>>, arguments |-> <<>>, flags |-> {"typeOnly"},
      initializer |-> 0, tagName |-> 0, typeParameters |-> <<>>, importClause |-> 0,
      namedBindings |-> 0, exportClause |-> 0, elements |-> <<>>, type |-> 0, colonToken |-> -1],
     [kind |-> "Identifier", pos |-> 12, start |-> 13, end |-> 15, children |-> <<>>,
      expression |-> 0, name |-> 0, typeArguments |-> <<>>, arguments |-> <<>>, flags |-> {},
      initializer |-> 0, tagName |-> 0, typeParameters |-> <<>>, importClause |-> 0,
      namedBindings |-> 0, exportClause |-> 0, elements |-> <<>>, type |-> 0, colonToken |-> -1],
     [kind |-> "ImportSpecifier", pos |-> 16, start |-> 16, end |-> 22, children |-> <<8>>,
      expression |-> 0, name |-> 8, typeArguments |-> <<>>, arguments |-> <<>>, flags |-> {"typeOnly"},
      initializer |-> 0, tagName |-> 0, typeParameters |-> <<>>, importClause |-> 0,
      namedBindings |-> 0, exportClause |-> 0, elements |-> <<>>, type |-> 0, colonToken |-> -1],
     [kind |-> "Identifier", pos |-> 20, start |-> 21, end |-> 22, children |-> <<>>,
      expression |-> 0, name |-> 0, typeArguments |-> <<>>, arguments |-> <<>>, flags |-> {},
      initializer |-> 0, tagName |-> 0, typeParameters |-> <<>>, importClause |-> 0,
      namedBindings |-> 0, exportClause |-> 0, elements |-> <<>>, type |-> 0, colonToken |-> -1],
     [kind |-> "ImportSpecifier", pos |-> 23, start |-> 23, end |-> 24, children |-> <<10>>,
      expression |-> 0, name |-> 10, typeArguments |-> <<>>, arguments |-> <<>>, flags |-> {},
      initializer |-> 0, tagName |-> 0, typeParameters |-> <<>>, importClause |-> 0,
      namedBindings |-> 0, exportClause |-> 0, elements |-> <<>>, type |-> 0, colonToken |-> -1],
     [kind |-> "Identifier", pos |-> 23, start |-> 23, end |-> 24, children |-> <<>>,
      expression |-> 0, name |-> 0, typeArguments |-> <<>>, arguments |-> <<>>, flags |-> {},
      initializer |-> 0, tagName |-> 0, typeParameters |-> <<>>, importClause |-> 0,
      namedBindings |-> 0, exportClause |-> 0, elements |-> <<>>, type |-> 0, colonToken |-> -1],
     [kind |-> "StringLiteral", pos |-> 30, start |-> 31, end |-> 34, children |-> <<>>,
      expression |-> 0, name |-> 0, typeArguments |-> <<>>, arguments |-> <<>>, flags |-> {},
      initializer |-> 0, tagName |-> 0, typeParameters |-> <<>>, importClause |-> 0,
      namedBindings |-> 0, exportClause |-> 0, elements |-> <<>>, type |-> 0, colonToken |-> -1],
     [kind |-> "EndOfFileToken", pos |-> 34, start |-> 34, end |-> 34, children |-> <<>>,
      expression |-> 0, name |-> 0, typeArguments |-> <<>>, arguments |-> <<>>, flags |-> {},
      initializer |-> 0, tagName |-> 0, typeParameters |-> <<>>, importClause |-> 0,
      namedBindings |-> 0, exportClause |-> 0, elements |-> <<>>, type |-> 0, colonToken |-> -1]
   >>]

\* export {type FC,type X,y}
DocExportMixed ==
  [text |-> <<"e", "x", "p", "o", "r", "t", " ", "{", "t", "y", "p", "e", " ", "F", "C", ",", "t", "y", "p", "e", " ", "X", ",", "y", "}">>,
   nodes |-> <<
     [kind |-> "SourceFile", pos |-> 0, start |-> 0, end |-> 25, children |-> <<2, 10>>,
      expression |-> 0, name |-> 0, typeArguments |-> <<>>, arguments |-> <<>>, flags |-> {},
      initializer |-> 0, tagName |-> 0, typeParameters |-> <<>>, importClause |-> 0,
      namedBindings |-> 0, exportClause |-> 0, elements |-> <<>>, type |-> 0, colonToken |-> -1],
     [kind |-> "ExportDeclaration", pos |-> 0, start |-> 0, end |-> 25, children |-> <<3>>,
      expression |-> 0, name |-> 0, typeArguments |-> <<>>, arguments |-> <<>>, flags |-> {},
      initializer |-> 0, tagName |-> 0, typeParameters |-> <<>>, importClause |-> 0,
      namedBindings |-> 0, exportClause |-> 3, elements |-> <<>>, type |-> 0, colonToken |-> -1],
     [kind |-> "NamedExports", pos |-> 6, start |-> 7, end |-> 25, children |-> <<4, 6, 8>>,
      expression |-> 0, name |-> 0, typeArguments |-> <<>>, arguments |-> <<>>, flags |-> {},
      initializer |-> 0, tagName |-> 0, typeParameters |-> <<>>, importClause |-> 0,
      namedBindings |-> 0, exportClause |-> 0, elements |-> <<4, 6, 8>>, type |-> 0, colonToken |-> -1],
     [kind |-> "ExportSpecifier", pos |-> 8, start |-> 8, end |-> 15, children |-> <<5>>,
      expression |-> 0, name |-> 5, typeArguments |-> <<>>, arguments |-> <<>>, flags |-> {"typeOnly"},
      initializer |-> 0, tagName |-> 0, typeParameters |-> <<>>, importClause |-> 0,
      namedBindings |-> 0, exportClause |-> 0, elements |-> <<>>, type |-> 0, colonToken |-> -1],
     [kind |-> "Identifier", pos |-> 12, start |-> 13, end |-> 15, children |-> <<>>,
      expression |-> 0, name |-> 0, typeArguments |-> <<>>, arguments |-> <<>>, flags |-> {},
      initializer |-> 0, tagName |-> 0, typeParameters |-> <<>>, importClause |-> 0,
      namedBindings |-> 0, exportClause |-> 0, elements |-> <<>>, type |-> 0, colonToken |-> -1],
     [kind |-> "ExportSpecifier", pos |-> 16, start |-> 16, end |-> 22, children |-> <<7>>,
      expression |-> 0, name |-> 7, typeArguments |-> <<>>, arguments |-> <<>>, flags |-> {"typeOnly"},
      initializer |-> 0, tagName |-> 0, typeParameters |-> <<>>, importClause |-> 0,
      namedBindings |-> 0, exportClause |-> 0, elements |-> <<>>, type |-> 0, colonToken |-> -1],
     [kind |-> "Identifier", pos |-> 20, start |-> 21, end |-> 22, children |-> <<>>,
      expression |-> 0, name |-> 0, typeArguments |-> <<>>, arguments |-> <<>>, flags |-> {},
      initializer |-> 0, tagName |-> 0, typeParameters |-> <<>>, importClause |-> 0,
      namedBindings |-> 0, exportClause |-> 0, elements |-> <<>>, type |-> 0, colonToken |-> -1],
     [kind |-> "ExportSpecifier", pos |-> 23, start |-> 23, end |-> 24, children |-> <<9>>,
      expression |-> 0, name |-> 9, typeArguments |-> <<>>, arguments |-> <<>>, flags |-> {},
      initializer |-> 0, tagName |-> 0, typeParameters |-> <<>>, importClause |-> 0,
      namedBindings |-> 0, exportClause |-> 0, elements |-> <<>>, type |-> 0, colonToken |-> -1],
     [kind |-> "Identifier", pos |-> 23, start |-> 23, end |-> 24, children |-> <<>>,
      expression |-> 0, name |-> 0, typeArguments |-> <<>>, arguments |-> <<>>, flags |-> {},
      initializer |-> 0, tagName |-> 0, typeParameters |-> <<>>, importClause |-> 0,
      namedBindings |-> 0, exportClause |-> 0, elements |-> <<>>, type |-> 0, colonToken |-> -1],
     [kind |-> "EndOfFileToken", pos |-> 25, start |-> 25, end |-> 25, children |-> <<>>,
      expression |-> 0, name |-> 0, typeArguments |-> <<>>, arguments |-> <<>>, flags |-> {},
      initializer |-> 0, tagName |-> 0, typeParameters |-> <<>>, importClause |-> 0,
      namedBindings |-> 0, exportClause |-> 0, elements |-> <<>>, type |-> 0, colonToken |-> -1]
   >>]

\* import {type A as FC} from "r"
DocImportAlias ==
  [text |-> <<"i", "m", "p", "o", "r", "t", " ", "{", "t", "y", "p", "e", " ", "A", " ", "a", "s", " ", "F", "C", "}", " ", "f", "r", "o", "m", " ", "\"", "r", "\"">>,
   nodes |-> <<
     [kind |-> "SourceFile", pos |-> 0, start |-> 0, end |-> 30, children |-> <<2, 9>>,
      expression |-> 0, name |-> 0, typeArguments |-> <<>>, arguments |-> <<>>, flags |-> {},
      initializer |-> 0, tagName |-> 0, typeParameters |-> <<>>, importClause |-> 0,
      namedBindings |-> 0, exportClause |-> 0, elements |-> <<>>, type |-> 0, colonToken |-> -1],
     [kind |-> "ImportDeclaration", pos |-> 0, start |-> 0, end |-> 30, children |-> <<3, 8>>,
      expression |-> 0, name |-> 0, typeArguments |-> <<>>, arguments |-> <<>>, flags |-> {},
      initializer |-> 0, tagName |-> 0, typeParameters |-> <<>>, importClause |-> 3,
      namedBindings |-> 0, exportClause |-> 0, elements |-> <<>>, type |-> 0, colonToken |-> -1],
     [kind |-> "ImportClause", pos |-> 6, start |-> 7, end |-> 21, children |-> <<4>>,
      expression |-> 0, name |-> 0, typeArguments |-> <<>>, arguments |-> <<>>, flags |-> {},
      initializer |-> 0, tagName |-> 0, typeParameters |-> <<>>, importClause |-> 0,
      namedBindings |-> 4, exportClause |-> 0, elements |-> <<>>, type |-> 0, colonToken |-> -1],
     [kind |-> "NamedImports", pos |-> 6, start |-> 7, end |-> 21, children |-> <<5>>,
      expression |-> 0, name |-> 0, typeArguments |-> <<>>, arguments |-> <<>>, flags |-> {},
      initializer |-> 0, tagName |-> 0, typeParameters |-> <<>>, importClause |-> 0,
      namedBindings |-> 0, exportClause |-> 0, elements |-> <<5>>, type |-> 0, colonToken |-> -1],
     [kind |-> "ImportSpecifier", pos |-> 8, start |-> 8, end |-> 20, children |-> <<6, 7>>,
      expression |-> 0, name |-> 7, typeArguments |-> <<>>, arguments |-> <<>>, flags |-> {"typeOnly"},
      initializer |-> 0, tagName |-> 0, typeParameters |-> <<>>, importClause |-> 0,
      namedBindings |-> 0, exportClause |-> 0, elements |-> <<>>, type |-> 0, colonToken |-> -1],
     [kind |-> "Identifier", pos |-> 12, start |-> 13, end |-> 14, children |-> <<>>,
      expression |-> 0, name |-> 0, typeArguments |-> <<>>, arguments |-> <<>>, flags |-> {},
      initializer |-> 0, tagName |-> 0, typeParameters |-> <<>>, importClause |-> 0,
      namedBindings |-> 0, exportClause |-> 0, elements |-> <<>>, type |-> 0, colonToken |-> -1],
     [kind |-> "Identifier", pos |-> 17, start |-> 18, end |-> 20, children |-> <<>>,
      expression |-> 0, name |-> 0, typeArguments |-> <<>>, arguments |-> <<>>, flags |-> {},
      initializer |-> 0, tagName |-> 0, typeParameters |-> <<>>, importClause |-> 0,
      namedBindings |-> 0, exportClause |-> 0, elements |-> <<>>, type |-> 0, colonToken |-> -1],
     [kind |-> "StringLiteral", pos |-> 26, start |-> 27, end |-> 30, children |-> <<>>,
      expression |-> 0, name |-> 0, typeArguments |-> <<>>, arguments |-> <<>>, flags |-> {},
      initializer |-> 0, tagName |-> 0, typeParameters |-> <<>>, importClause |-> 0,
      namedBindings |-> 0, exportClause |-> 0, elements |-> <<>>, type |-> 0, colonToken |-> -1],
     [kind |-> "EndOfFileToken", pos |-> 30, start |-> 30, end |-> 30, children |-> <<>>,
      expression |-> 0, name |-> 0, typeArguments |-> <<>>, arguments |-> <<>>, flags |-> {},
      initializer |-> 0, tagName |-> 0, typeParameters |-> <<>>, importClause |-> 0,
      namedBindings |-> 0, exportClause |-> 0, elements |-> <<>>, type |-> 0, colonToken |-> -1]
   >>]

\* import React,{type FC} from "r"
DocImportReact ==
  [text |-> <<"i", "m", "p", "o", "r", "t", " ", "R", "e", "a", "c", "t", ",", "{", "t", "y", "p", "e", " ", "F", "C", "}", " ", "f", "r", "o", "m", " ", "\"", "r", "\"">>,
   nodes |-> <<
     [kind |-> "SourceFile", pos |-> 0, start |-> 0, end |-> 31, children |-> <<2, 9>>,
      expression |-> 0, name |-> 0, typeArguments |-> <<>>, arguments |-> <<>>, flags |-> {},
      initializer |-> 0, tagName |-> 0, typeParameters |-> <<>>, importClause |-> 0,
      namedBindings |-> 0, exportClause |-> 0, elements |-> <<>>, type |-> 0, colonToken |-> -1],
     [kind |-> "ImportDeclaration", pos |-> 0, start |-> 0, end |-> 31, children |-> <<3, 8>>,
      expression |-> 0, name |-> 0, typeArguments |-> <<>>, arguments |-> <<>>, flags |-> {},
      initializer |-> 0, tagName |-> 0, typeParameters |-> <<>>, importClause |-> 3,
      namedBindings |-> 0, exportClause |-> 0, elements |-> <<>>, type |-> 0, colonToken |-> -1],
     [kind |-> "ImportClause", pos |-> 6, start |-> 7, end |-> 22, children |-> <<4, 5>>,
      expression |-> 0, name |-> 0, typeArguments |-> <<>>, arguments |-> <<>>, flags |-> {},
      initializer |-> 0, tagName |-> 0, typeParameters |-> <<>>, importClause |-> 0,
      namedBindings |-> 5, exportClause |-> 0, elements |-> <<>>, type |-> 0, colonToken |-> -1],
     [kind |-> "Identifier", pos |-> 6, start |-> 7, end |-> 12, children |-> <<>>,
      expression |-> 0, name |-> 0, typeArguments |-> <<>>, arguments |-> <<>>, flags |-> {},
      initializer |-> 0, tagName |-> 0, typeParameters |-> <<>>, importClause |-> 0,
      namedBindings |-> 0, exportClause |-> 0, elements |-> <<>>, type |-> 0, colonToken |-> -1],
     [kind |-> "NamedImports", pos |-> 13, start |-> 13, end |-> 22, children |-> <<6>>,
      expression |-> 0, name |-> 0, typeArguments |-> <<>>, arguments |-> <<>>, flags |-> {},
      initializer |-> 0, tagName |-> 0, typeParameters |-> <<>>, importClause |-> 0,
      namedBindings |-> 0, exportClause |-> 0, elements |-> <<6>>, type |-> 0, colonToken |-> -1],
     [kind |-> "ImportSpecifier", pos |-> 14, start |-> 14, end |-> 21, children |-> <<7>>,
      expression |-> 0, name |-> 7, typeArguments |-> <<>>, arguments |-> <<>>, flags |-> {"typeOnly"},
      initializer |-> 0, tagName |-> 0, typeParameters |-> <<>>, importClause |-> 0,
      namedBindings |-> 0, exportClause |-> 0, elements |-> <<>>, type |-> 0, colonToken |-> -1],
     [kind |-> "Identifier", pos |-> 18, start |-> 19, end |-> 21, children |-> <<>>,
      expression |-> 0, name |-> 0, typeArguments |-> <<>>, arguments |-> <<>>, flags |-> {},
      initializer |-> 0, tagName |-> 0, typeParameters |-> <<>>, importClause |-> 0,
      namedBindings |-> 0, exportClause |-> 0, elements |-> <<>>, type |-> 0, colonToken |-> -1],
     [kind |-> "StringLiteral", pos |-> 27, start |-> 28, end |-> 31, children |-> <<>>,
      expression |-> 0, name |-> 0, typeArguments |-> <<>>, arguments |-> <<>>, flags |-> {},
      initializer |-> 0, tagName |-> 0, typeParameters |-> <<>>, importClause |-> 0,
      namedBindings |-> 0, exportClause |-> 0, elements |-> <<>>, type |-> 0, colonToken |-> -1],
     [kind |-> "EndOfFileToken", pos |-> 31, start |-> 31, end |-> 31, children |-> <<>>,
      expression |-> 0, name |-> 0, typeArguments |-> <<>>, arguments |-> <<>>, flags |-> {},
      initializer |-> 0, tagName |-> 0, typeParameters |-> <<>>, importClause |-> 0,
      namedBindings |-> 0, exportClause |-> 0, elements |-> <<>>, type |-> 0, colonToken |-> -1]
   >>]

\* type A=[FC,B]
DocTypeAlias ==
  [text |-> <<"t", "y", "p", "e", " ", "A", "=", "[", "F", "C", ",", "B", "]">>,
   nodes |-> <<
     [kind |-> "SourceFile", pos |-> 0, start |-> 0, end |-> 13, children |-> <<2, 9>>,
      expression |-> 0, name |-> 0, typeArguments |-> <<>>, arguments |-> <<>>, flags |-> {},
      initializer |-> 0, tagName |-> 0, typeParameters |-> <<>>, importClause |-> 0,
      namedBindings |-> 0, exportClause |-> 0, elements |-> <<>>, type |-> 0, colonToken |-> -1],
     [kind |-> "TypeAliasDeclaration", pos |-> 0, start |-> 0, end |-> 13, children |-> <<3, 4>>,
      expression |-> 0, name |-> 3, typeArguments |-> <<>>, arguments |-> <<>>, flags |-> {},
      initializer |-> 0, tagName |-> 0, typeParameters |-> <<>>, importClause |-> 0,
      namedBindings |-> 0, exportClause |-> 0, elements |-> <<>>, type |-> 4, colonToken |-> -1],
     [kind |-> "Identifier", pos |-> 4, start |-> 5, end |-> 6, children |-> <<>>,
      expression |-> 0, name |-> 0, typeArguments |-> <<>>, arguments |-> <<>>, flags |-> {},
      initializer |-> 0, tagName |-> 0, typeParameters |-> <<>>, importClause |-> 0,
      namedBindings |-> 0, exportClause |-> 0, elements |-> <<>>, type |-> 0, colonToken |-> -1],
     [kind |-> "TupleType", pos |-> 7, start |-> 7, end |-> 13, children |-> <<5, 7>>,
      expression |-> 0, name |-> 0, typeArguments |-> <<>>, arguments |-> <<>>, flags |-> {},
      initializer |-> 0, tagName |-> 0, typeParameters |-> <<>>, importClause |-> 0,
      namedBindings |-> 0, exportClause |-> 0, elements |-> <<>>, type |-> 0, colonToken |-> -1],
     [kind |-> "TypeReference", pos |-> 8, start |-> 8, end |-> 10, children |-> <<6>>,
      expression |-> 0, name |-> 6, typeArguments |-> <<>>, arguments |-> <<>>, flags |-> {},
      initializer |-> 0, tagName |-> 0, typeParameters |-> <<>>, importClause |-> 0,
      namedBindings |-> 0, exportClause |-> 0, elements |-> <<>>, type |-> 0, colonToken |-> -1],
     [kind |-> "Identifier", pos |-> 8, start |-> 8, end |-> 10, children |-> <<>>,
      expression |-> 0, name |-> 0, typeArguments |-> <<>>, arguments |-> <<>>, flags |-> {},
      initializer |-> 0, tagName |-> 0, typeParameters |-> <<>>, importClause |-> 0,
      namedBindings |-> 0, exportClause |-> 0, elements |-> <<>>, type |-> 0, colonToken |-> -1],
     [kind |-> "TypeReference", pos |-> 11, start |-> 11, end |-> 12, children |-> <<8>>,
      expression |-> 0, name |-> 8, typeArguments |-> <<>>, arguments |-> <<>>, flags |-> {},
      initializer |-> 0, tagName |-> 0, typeParameters |-> <<>>, importClause |-> 0,
      namedBindings |-> 0, exportClause |-> 0, elements |-> <<>>, type |-> 0, colonToken |-> -1],
     [kind |-> "Identifier", pos |-> 11, start |-> 11, end |-> 12, children |-> <<>>,
      expression |-> 0, name |-> 0, typeArguments |-> <<>>, arguments |-> <<>>, flags |-> {},
      initializer |-> 0, tagName |-> 0, typeParameters |-> <<>>, importClause |-> 0,
      namedBindings |-> 0, exportClause |-> 0, elements |-> <<>>, type |-> 0, colonToken |-> -1],
     [kind |-> "EndOfFileToken", pos |-> 13, start |-> 13, end |-> 13, children |-> <<>>,
      expression |-> 0, name |-> 0, typeArguments |-> <<>>, arguments |-> <<>>, flags |-> {},
      initializer |-> 0, tagName |-> 0, typeParameters |-> <<>>, importClause |-> 0,
      namedBindings |-> 0, exportClause |-> 0, elements |-> <<>>, type |-> 0, colonToken |-> -1]
   >>]

\* type A=React.X
DocTypeReact ==
  [text |-> <<"t", "y", "p", "e", " ", "A", "=", "R", "e", "a", "c", "t", ".", "X">>,
   nodes |-> <<
     [kind |-> "SourceFile", pos |-> 0, start |-> 0, end |-> 14, children |-> <<2, 8>>,
      expression |-> 0, name |-> 0, typeArguments |-> <<>>, arguments |-> <<>>, flags |-> {},
      initializer |-> 0, tagName |-> 0, typeParameters |-> <<>>, importClause |-> 0,
      namedBindings |-> 0, exportClause |-> 0, elements |-> <<>>, type |-> 0, colonToken |-> -1],
     [kind |-> "TypeAliasDeclaration", pos |-> 0, start |-> 0, end |-> 14, children |-> <<3, 4>>,
      expression |-> 0, name |-> 3, typeArguments |-> <<>>, arguments |-> <<>>, flags |-> {},
      initializer |-> 0, tagName |-> 0, typeParameters |-> <<>>, importClause |-> 0,
      namedBindings |-> 0, exportClause |-> 0, elements |-> <<>>, type |-> 4, colonToken |-> -1],
     [kind |-> "Identifier", pos |-> 4, start |-> 5, end |-> 6, children |-> <<>>,
      expression |-> 0, name |-> 0, typeArguments |-> <<>>, arguments |-> <<>>, flags |-> {},
      initializer |-> 0, tagName |-> 0, typeParameters |-> <<>>, importClause |-> 0,
      namedBindings |-> 0, exportClause |-> 0, elements |-> <<>>, type |-> 0, colonToken |-> -1],
     [kind |-> "TypeReference", pos |-> 7, start |-> 7, end |-> 14, children |-> <<5>>,
      expression |-> 0, name |-> 5, typeArguments |-> <<>>, arguments |-> <<>>, flags |-> {},
      initializer |-> 0, tagName |-> 0, typeParameters |-> <<>>, importClause |-> 0,
      namedBindings |-> 0, exportClause |-> 0, elements |-> <<>>, type |-> 0, colonToken |-> -1],
     [kind |-> "QualifiedName", pos |-> 7, start |-> 7, end |-> 14, children |-> <<6, 7>>,
      expression |-> 0, name |-> 0, typeArguments |-> <<>>, arguments |-> <<>>, flags |-> {},
      initializer |-> 0, tagName |-> 0, typeParameters |-> <<>>, importClause |-> 0,
      namedBindings |-> 0, exportClause |-> 0, elements |-> <<>>, type |-> 0, colonToken |-> -1],
     [kind |-> "Identifier", pos |-> 7, start |-> 7, end |-> 12, children |-> <<>>,
      expression |-> 0, name |-> 0, typeArguments |-> <<>>, arguments |-> <<>>, flags |-> {},
      initializer |-> 0, tagName |-> 0, typeParameters |-> <<>>, importClause |-> 0,
      namedBindings |-> 0, exportClause |-> 0, elements |-> <<>>, type |-> 0, colonToken |-> -1],
     [kind |-> "Identifier", pos |-> 13, start |-> 13, end |-> 14, children |-> <<>>,
      expression |-> 0, name |-> 0, typeArguments |-> <<>>, arguments |-> <<>>, flags |-> {},
      initializer |-> 0, tagName |-> 0, typeParameters |-> <<>>, importClause |-> 0,
      namedBindings |-> 0, exportClause |-> 0, elements |-> <<>>, type |-> 0, colonToken |-> -1],
     [kind |-> "EndOfFileToken", pos |-> 14, start |-> 14, end |-> 14, children |-> <<>>,
      expression |-> 0, name |-> 0, typeArguments |-> <<>>, arguments |-> <<>>, flags |-> {},
      initializer |-> 0, tagName |-> 0, typeParameters |-> <<>>, importClause |-> 0,
      namedBindings |-> 0, exportClause |-> 0, elements |-> <<>>, type |-> 0, colonToken |-> -1]
   >>]

\* type A=FC<B>
DocTypeGeneric ==
  [text |-> <<"t", "y", "p", "e", " ", "A", "=", "F", "C", "<", "B", ">">>,
   nodes |-> <<
     [kind |-> "SourceFile", pos |-> 0, start |-> 0, end |-> 12, children |-> <<2, 8>>,
      expression |-> 0, name |-> 0, typeArguments |-> <<>>, arguments |-> <<>>, flags |-> {},
      initializer |-> 0, tagName |-> 0, typeParameters |-> <<>>, importClause |-> 0,
      namedBindings |-> 0, exportClause |-> 0, elements |-> <<>>, type |-> 0, colonToken |-> -1],
     [kind |-> "TypeAliasDeclaration", pos |-> 0, start |-> 0, end |-> 12, children |-> <<3, 4>>,
      expression |-> 0, name |-> 3, typeArguments |-> <<>>, arguments |-> <<>>, flags |-> {},
      initializer |-> 0, tagName |-> 0, typeParameters |-> <<>>, importClause |-> 0,
      namedBindings |-> 0, exportClause |-> 0, elements |-> <<>>, type |-> 4, colonToken |-> -1],
     [kind |-> "Identifier", pos |-> 4, start |-> 5, end |-> 6, children |-> <<>>,
      expression |-> 0, name |-> 0, typeArguments |-> <<>>, arguments |-> <<>>, flags |-> {},
      initializer |-> 0, tagName |-> 0, typeParameters |-> <<>>, importClause |-> 0,
      namedBindings |-> 0, exportClause |-> 0, elements |-> <<>>, type |-> 0, colonToken |-> -1],
     [kind |-> "TypeReference", pos |-> 7, start |-> 7, end |-> 12, children |-> <<5, 6>>,
      expression |-> 0, name |-> 5, typeArguments |-> <<6>>, arguments |-> <<>>, flags |-> {},
      initializer |-> 0, tagName |-> 0, typeParameters |-> <<>>, importClause |-> 0,
      namedBindings |-> 0, exportClause |-> 0, elements |-> <<>>, type |-> 0, colonToken |-> -1],
     [kind |-> "Identifier", pos |-> 7, start |-> 7, end |-> 9, children |-> <<>>,
      expression |-> 0, name |-> 0, typeArguments |-> <<>>, arguments |-> <<>>, flags |-> {},
      initializer |-> 0, tagName |-> 0, typeParameters |-> <<>>, importClause |-> 0,
      namedBindings |-> 0, exportClause |-> 0, elements |-> <<>>, type |-> 0, colonToken |-> -1],
     [kind |-> "TypeReference", pos |-> 10, start |-> 10, end |-> 11, children |-> <<7>>,
      expression |-> 0, name |-> 7, typeArguments |-> <<>>, arguments |-> <<>>, flags |-> {},
      initializer |-> 0, tagName |-> 0, typeParameters |-> <<>>, importClause |-> 0,
      namedBindings |-> 0, exportClause |-> 0, elements |-> <<>>, type |-> 0, colonToken |-> -1],
     [kind |-> "Identifier", pos |-> 10, start |-> 10, end |-> 11, children |-> <<>>,
      expression |-> 0, name |-> 0, typeArguments |-> <<>>, arguments |-> <<>>, flags |-> {},
      initializer |-> 0, tagName |-> 0, typeParameters |-> <<>>, importClause |-> 0,
      namedBindings |-> 0, exportClause |-> 0, elements |-> <<>>, type |-> 0, colonToken |-> -1],
     [kind |-> "EndOfFileToken", pos |-> 12, start |-> 12, end |-> 12, children |-> <<>>,
      expression |-> 0, name |-> 0, typeArguments |-> <<>>, arguments |-> <<>>, flags |-> {},
      initializer |-> 0, tagName |-> 0, typeParameters |-> <<>>, importClause |-> 0,
      namedBindings |-> 0, exportClause |-> 0, elements |-> <<>>, type |-> 0, colonToken |-> -1]
   >>]

\* interface I{f():JSX.E}
DocInterface ==
  [text |-> <<"i", "n", "t", "e", "r", "f", "a", "c", "e", " ", "I", "{", "f", "(", ")", ":", "J", "S", "X", ".", "E", "}">>,
   nodes |-> <<
     [kind |-> "SourceFile", pos |-> 0, start |-> 0, end |-> 22, children |-> <<2, 10>>,
      expression |-> 0, name |-> 0, typeArguments |-> <<>>, arguments |-> <<>>, flags |-> {},
      initializer |-> 0, tagName |-> 0, typeParameters |-> <<>>, importClause |-> 0,
      namedBindings |-> 0, exportClause |-> 0, elements |-> <<>>, type |-> 0, colonToken |-> -1],
     [kind |-> "InterfaceDeclaration", pos |-> 0, start |-> 0, end |-> 22, children |-> <<3, 4>>,
      expression |-> 0, name |-> 3, typeArguments |-> <<>>, arguments |-> <<>>, flags |-> {},
      initializer |-> 0, tagName |-> 0, typeParameters |-> <<>>, importClause |-> 0,
      namedBindings |-> 0, exportClause |-> 0, elements |-> <<>>, type |-> 0, colonToken |-> -1],
     [kind |-> "Identifier", pos |-> 9, start |-> 10, end |-> 11, children |-> <<>>,
      expression |-> 0, name |-> 0, typeArguments |-> <<>>, arguments |-> <<>>, flags |-> {},
      initializer |-> 0, tagName |-> 0, typeParameters |-> <<>>, importClause |-> 0,
      namedBindings |-> 0, exportClause |-> 0, elements |-> <<>>, type |-> 0, colonToken |-> -1],
     [kind |-> "MethodSignature", pos |-> 12, start |-> 12, end |-> 21, children |-> <<5, 6>>,
      expression |-> 0, name |-> 5, typeArguments |-> <<>>, arguments |-> <<>>, flags |-> {},
      initializer |-> 0, tagName |-> 0, typeParameters |-> <<>>, importClause |-> 0,
      namedBindings |-> 0, exportClause |-> 0, elements |-> <<>>, type |-> 6, colonToken |-> -1],
     [kind |-> "Identifier", pos |-> 12, start |-> 12, end |-> 13, children |-> <<>>,
      expression |-> 0, name |-> 0, typeArguments |-> <<>>, arguments |-> <<>>, flags |-> {},
      initializer |-> 0, tagName |-> 0, typeParameters |-> <<>>, importClause |-> 0,
      namedBindings |-> 0, exportClause |-> 0, elements |-> <<>>, type |-> 0, colonToken |-> -1],
     [kind |-> "TypeReference", pos |-> 16, start |-> 16, end |-> 21, children |-> <<7>>,
      expression |-> 0, name |-> 7, typeArguments |-> <<>>, arguments |-> <<>>, flags |-> {},
      initializer |-> 0, tagName |-> 0, typeParameters |-> <<>>, importClause |-> 0,
      namedBindings |-> 0, exportClause |-> 0, elements |-> <<>>, type |-> 0, colonToken |-> -1],
     [kind |-> "QualifiedName", pos |-> 16, start |-> 16, end |-> 21, children |-> <<8, 9>>,
      expression |-> 0, name |-> 0, typeArguments |-> <<>>, arguments |-> <<>>, flags |-> {},
      initializer |-> 0, tagName |-> 0, typeParameters |-> <<>>, importClause |-> 0,
      namedBindings |-> 0, exportClause |-> 0, elements |-> <<>>, type |-> 0, colonToken |-> -1],
     [kind |-> "Identifier", pos |-> 16, start |-> 16, end |-> 19, children |-> <<>>,
      expression |-> 0, name |-> 0, typeArguments |-> <<>>, arguments |-> <<>>, flags |-> {},
      initializer |-> 0, tagName |-> 0, typeParameters |-> <<>>, importClause |-> 0,
      namedBindings |-> 0, exportClause |-> 0, elements |-> <<>>, type |-> 0, colonToken |-> -1],
     [kind |-> "Identifier", pos |-> 20, start |-> 20, end |-> 21, children |-> <<>>,
      expression |-> 0, name |-> 0, typeArguments |-> <<>>, arguments |-> <<>>, flags |-> {},
      initializer |-> 0, tagName |-> 0, typeParameters |-> <<>>, importClause |-> 0,
      namedBindings |-> 0, exportClause |-> 0, elements |-> <<>>, type |-> 0, colonToken |-> -1],
     [kind |-> "EndOfFileToken", pos |-> 22, start |-> 22, end |-> 22, children |-> <<>>,
      expression |-> 0, name |-> 0, typeArguments |-> <<>>, arguments |-> <<>>, flags |-> {},
      initializer |-> 0, tagName |-> 0, typeParameters |-> <<>>, importClause |-> 0,
      namedBindings |-> 0, exportClause |-> 0, elements |-> <<>>, type |-> 0, colonToken |-> -1]
   >>]

\* declare const x:FC
DocDeclareConst ==
  [text |-> <<"d", "e", "c", "l", "a", "r", "e", " ", "c", "o", "n", "s", "t", " ", "x", ":", "F", "C">>,
   nodes |-> <<
     [kind |-> "SourceFile", pos |-> 0, start |-> 0, end |-> 18, children |-> <<2, 9>>,
      expression |-> 0, name |-> 0, typeArguments |-> <<>>, arguments |-> <<>>, flags |-> {},
      initializer |-> 0, tagName |-> 0, typeParameters |-> <<>>, importClause |-> 0,
      namedBindings |-> 0, exportClause |-> 0, elements |-> <<>>, type |-> 0, colonToken |-> -1],
     [kind |-> "VariableStatement", pos |-> 0, start |-> 0, end |-> 18, children |-> <<3, 4>>,
      expression |-> 0, name |-> 0, typeArguments |-> <<>>, arguments |-> <<>>, flags |-> {"declare"},
      initializer |-> 0, tagName |-> 0, typeParameters |-> <<>>, importClause |-> 0,
      namedBindings |-> 0, exportClause |-> 0, elements |-> <<>>, type |-> 0, colonToken |-> -1],
     [kind |-> "DeclareKeyword", pos |-> 0, start |-> 0, end |-> 7, children |-> <<>>,
      expression |-> 0, name |-> 0, typeArguments |-> <<>>, arguments |-> <<>>, flags |-> {},
      initializer |-> 0, tagName |-> 0, typeParameters |-> <<>>, importClause |-> 0,
      namedBindings |-> 0, exportClause |-> 0, elements |-> <<>>, type |-> 0, colonToken |-> -1],
     [kind |-> "VariableDeclarationList", pos |-> 7, start |-> 8, end |-> 18, children |-> <<5>>,
      expression |-> 0, name |-> 0, typeArguments |-> <<>>, arguments |-> <<>>, flags |-> {},
      initializer |-> 0, tagName |-> 0, typeParameters |-> <<>>, importClause |-> 0,
      namedBindings |-> 0, exportClause |-> 0, elements |-> <<>>, type |-> 0, colonToken |-> -1],
     [kind |-> "VariableDeclaration", pos |-> 13, start |-> 14, end |-> 18, children |-> <<6, 7>>,
      expression |-> 0, name |-> 6, typeArguments |-> <<>>, arguments |-> <<>>, flags |-> {},
      initializer |-> 0, tagName |-> 0, typeParameters |-> <<>>, importClause |-> 0,
      namedBindings |-> 0, exportClause |-> 0, elements |-> <<>>, type |-> 7, colonToken |-> 15],
     [kind |-> "Identifier", pos |-> 13, start |-> 14, end |-> 15, children |-> <<>>,
      expression |-> 0, name |-> 0, typeArguments |-> <<>>, arguments |-> <<>>, flags |-> {},
      initializer |-> 0, tagName |-> 0, typeParameters |-> <<>>, importClause |-> 0,
      namedBindings |-> 0, exportClause |-> 0, elements |-> <<>>, type |-> 0, colonToken |-> -1],
     [kind |-> "TypeReference", pos |-> 16, start |-> 16, end |-> 18, children |-> <<8>>,
      expression |-> 0, name |-> 8, typeArguments |-> <<>>, arguments |-> <<>>, flags |-> {},
      initializer |-> 0, tagName |-> 0, typeParameters |-> <<>>, importClause |-> 0,
      namedBindings |-> 0, exportClause |-> 0, elements |-> <<>>, type |-> 0, colonToken |-> -1],
     [kind |-> "Identifier", pos |-> 16, start |-> 16, end |-> 18, children |-> <<>>,
      expression |-> 0, name |-> 0, typeArguments |-> <<>>, arguments |-> <<>>, flags |-> {},
      initializer |-> 0, tagName |-> 0, typeParameters |-> <<>>, importClause |-> 0,
      namedBindings |-> 0, exportClause |-> 0, elements |-> <<>>, type |-> 0, colonToken |-> -1],
     [kind |-> "EndOfFileToken", pos |-> 18, start |-> 18, end |-> 18, children |-> <<>>,
      expression |-> 0, name |-> 0, typeArguments |-> <<>>, arguments |-> <<>>, flags |-> {},
      initializer |-> 0, tagName |-> 0, typeParameters |-> <<>>, importClause |-> 0,
      namedBindings |-> 0, exportClause |-> 0, elements |-> <<>>, type |-> 0, colonToken |-> -1]
   >>]

\* declare function f():FC
DocDeclareFunction ==
  [text |-> <<"d", "e", "c", "l", "a", "r", "e", " ", "f", "u", "n", "c", "t", "i", "o", "n", " ", "f", "(", ")", ":", "F", "C">>,
   nodes |-> <<
     [kind |-> "SourceFile", pos |-> 0, start |-> 0, end |-> 23, children |-> <<2, 7>>,
      expression |-> 0, name |-> 0, typeArguments |-> <<>>, arguments |-> <<>>, flags |-> {},
      initializer |-> 0, tagName |-> 0, typeParameters |-> <<>>, importClause |-> 0,
      namedBindings |-> 0, exportClause |-> 0, elements |-> <<>>, type |-> 0, colonToken |-> -1],
     [kind |-> "FunctionDeclaration", pos |-> 0, start |-> 0, end |-> 23, children |-> <<3, 4, 5>>,
      expression |-> 0, name |-> 4, typeArguments |-> <<>>, arguments |-> <<>>, flags |-> {"declare"},
      initializer |-> 0, tagName |-> 0, typeParameters |-> <<>>, importClause |-> 0,
      namedBindings |-> 0, exportClause |-> 0, elements |-> <<>>, type |-> 5, colonToken |-> 20],
     [kind |-> "DeclareKeyword", pos |-> 0, start |-> 0, end |-> 7, children |-> <<>>,
      expression |-> 0, name |-> 0, typeArguments |-> <<>>, arguments |-> <<>>, flags |-> {},
      initializer |-> 0, tagName |-> 0, typeParameters |-> <<>>, importClause |-> 0,
      namedBindings |-> 0, exportClause |-> 0, elements |-> <<>>, type |-> 0, colonToken |-> -1],
     [kind |-> "Identifier", pos |-> 16, start |-> 17, end |-> 18, children |-> <<>>,
      expression |-> 0, name |-> 0, typeArguments |-> <<>>, arguments |-> <<>>, flags |-> {},
      initializer |-> 0, tagName |-> 0, typeParameters |-> <<>>, importClause |-> 0,
      namedBindings |-> 0, exportClause |-> 0, elements |-> <<>>, type |-> 0, colonToken |-> -1],
     [kind |-> "TypeReference", pos |-> 21, start |-> 21, end |-> 23, children |-> <<6>>,
      expression |-> 0, name |-> 6, typeArguments |-> <<>>, arguments |-> <<>>, flags |-> {},
      initializer |-> 0, tagName |-> 0, typeParameters |-> <<>>, importClause |-> 0,
      namedBindings |-> 0, exportClause |-> 0, elements |-> <<>>, type |-> 0, colonToken |-> -1],
     [kind |-> "Identifier", pos |-> 21, start |-> 21, end |-> 23, children |-> <<>>,
      expression |-> 0, name |-> 0, typeArguments |-> <<>>, arguments |-> <<>>, flags |-> {},
      initializer |-> 0, tagName |-> 0, typeParameters |-> <<>>, importClause |-> 0,
      namedBindings |-> 0, exportClause |-> 0, elements |-> <<>>, type |-> 0, colonToken |-> -1],
     [kind |-> "EndOfFileToken", pos |-> 23, start |-> 23, end |-> 23, children |-> <<>>,
      expression |-> 0, name |-> 0, typeArguments |-> <<>>, arguments |-> <<>>, flags |-> {},
      initializer |-> 0, tagName |-> 0, typeParameters |-> <<>>, importClause |-> 0,
      namedBindings |-> 0, exportClause |-> 0, elements |-> <<>>, type |-> 0, colonToken |-> -1]
   >>]

\* declare class C{x:FC}
DocDeclareClass ==
  [text |-> <<"d", "e", "c", "l", "a", "r", "e", " ", "c", "l", "a", "s", "s", " ", "C", "{", "x", ":", "F", "C", "}">>,
   nodes |-> <<
     [kind |-> "SourceFile", pos |-> 0, start |-> 0, end |-> 21, children |-> <<2, 9>>,
      expression |-> 0, name |-> 0, typeArguments |-> <<>>, arguments |-> <<>>, flags |-> {},
      initializer |-> 0, tagName |-> 0, typeParameters |-> <<>>, importClause |-> 0,
      namedBindings |-> 0, exportClause |-> 0, elements |-> <<>>, type |-> 0, colonToken |-> -1],
     [kind |-> "ClassDeclaration", pos |-> 0, start |-> 0, end |-> 21, children |-> <<3, 4, 5>>,
      expression |-> 0, name |-> 4, typeArguments |-> <<>>, arguments |-> <<>>, flags |-> {"declare"},
      initializer |-> 0, tagName |-> 0, typeParameters |-> <<>>, importClause |-> 0,
      namedBindings |-> 0, exportClause |-> 0, elements |-> <<>>, type |-> 0, colonToken |-> -1],
     [kind |-> "DeclareKeyword", pos |-> 0, start |-> 0, end |-> 7, children |-> <<>>,
      expression |-> 0, name |-> 0, typeArguments |-> <<>>, arguments |-> <<>>, flags |-> {},
      initializer |-> 0, tagName |-> 0, typeParameters |-> <<>>, importClause |-> 0,
      namedBindings |-> 0, exportClause |-> 0, elements |-> <<>>, type |-> 0, colonToken |-> -1],
     [kind |-> "Identifier", pos |-> 13, start |-> 14, end |-> 15, children |-> <<>>,
      expression |-> 0, name |-> 0, typeArguments |-> <<>>, arguments |-> <<>>, flags |-> {},
      initializer |-> 0, tagName |-> 0, typeParameters |-> <<>>, importClause |-> 0,
      namedBindings |-> 0, exportClause |-> 0, elements |-> <<>>, type |-> 0, colonToken |-> -1],
     [kind |-> "PropertyDeclaration", pos |-> 16, start |-> 16, end |-> 20, children |-> <<6, 7>>,
      expression |-> 0, name |-> 6, typeArguments |-> <<>>, arguments |-> <<>>, flags |-> {},
      initializer |-> 0, tagName |-> 0, typeParameters |-> <<>>, importClause |-> 0,
      namedBindings |-> 0, exportClause |-> 0, elements |-> <<>>, type |-> 7, colonToken |-> 17],
     [kind |-> "Identifier", pos |-> 16, start |-> 16, end |-> 17, children |-> <<>>,
      expression |-> 0, name |-> 0, typeArguments |-> <<>>, arguments |-> <<>>, flags |-> {},
      initializer |-> 0, tagName |-> 0, typeParameters |-> <<>>, importClause |-> 0,
      namedBindings |-> 0, exportClause |-> 0, elements |-> <<>>, type |-> 0, colonToken |-> -1],
     [kind |-> "TypeReference", pos |-> 18, start |-> 18, end |-> 20, children |-> <<8>>,
      expression |-> 0, name |-> 8, typeArguments |-> <<>>, arguments |-> <<>>, flags |-> {},
      initializer |-> 0, tagName |-> 0, typeParameters |-> <<>>, importClause |-> 0,
      namedBindings |-> 0, exportClause |-> 0, elements |-> <<>>, type |-> 0, colonToken |-> -1],
     [kind |-> "Identifier", pos |-> 18, start |-> 18, end |-> 20, children |-> <<>>,
      expression |-> 0, name |-> 0, typeArguments |-> <<>>, arguments |-> <<>>, flags |-> {},
      initializer |-> 0, tagName |-> 0, typeParameters |-> <<>>, importClause |-> 0,
      namedBindings |-> 0, exportClause |-> 0, elements |-> <<>>, type |-> 0, colonToken |-> -1],
     [kind |-> "EndOfFileToken", pos |-> 21, start |-> 21, end |-> 21, children |-> <<>>,
      expression |-> 0, name |-> 0, typeArguments |-> <<>>, arguments |-> <<>>, flags |-> {},
      initializer |-> 0, tagName |-> 0, typeParameters |-> <<>>, importClause |-> 0,
      namedBindings |-> 0, exportClause |-> 0, elements |-> <<>>, type |-> 0, colonToken |-> -1]
   >>]

\* namespace N{a /*c*/}
DocNamespace ==
  [text |-> <<"n", "a", "m", "e", "s", "p", "a", "c", "e", " ", "N", "{", "a", " ", "/", "*", "c", "*", "/", "}">>,
   nodes |-> <<
     [kind |-> "SourceFile", pos |-> 0, start |-> 0, end |-> 20, children |-> <<2, 7>>,
      expression |-> 0, name |-> 0, typeArguments |-> <<>>, arguments |-> <<>>, flags |-> {},
      initializer |-> 0, tagName |-> 0, typeParameters |-> <<>>, importClause |-> 0,
      namedBindings |-> 0, exportClause |-> 0, elements |-> <<>>, type |-> 0, colonToken |-> -1],
     [kind |-> "ModuleDeclaration", pos |-> 0, start |-> 0, end |-> 20, children |-> <<3, 4>>,
      expression |-> 0, name |-> 3, typeArguments |-> <<>>, arguments |-> <<>>, flags |-> {},
      initializer |-> 0, tagName |-> 0, typeParameters |-> <<>>, importClause |-> 0,
      namedBindings |-> 0, exportClause |-> 0, elements |-> <<>>, type |-> 0, colonToken |-> -1],
     [kind |-> "Identifier", pos |-> 9, start |-> 10, end |-> 11, children |-> <<>>,
      expression |-> 0, name |-> 0, typeArguments |-> <<>>, arguments |-> <<>>, flags |-> {},
      initializer |-> 0, tagName |-> 0, typeParameters |-> <<>>, importClause |-> 0,
      namedBindings |-> 0, exportClause |-> 0, elements |-> <<>>, type |-> 0, colonToken |-> -1],
     [kind |-> "ModuleBlock", pos |-> 11, start |-> 11, end |-> 20, children |-> <<5>>,
      expression |-> 0, name |-> 0, typeArguments |-> <<>>, arguments |-> <<>>, flags |-> {},
      initializer |-> 0, tagName |-> 0, typeParameters |-> <<>>, importClause |-> 0,
      namedBindings |-> 0, exportClause |-> 0, elements |-> <<>>, type |-> 0, colonToken |-> -1],
     [kind |-> "ExpressionStatement", pos |-> 12, start |-> 12, end |-> 13, children |-> <<6>>,
      expression |-> 6, name |-> 0, typeArguments |-> <<>>, arguments |-> <<>>, flags |-> {},
      initializer |-> 0, tagName |-> 0, typeParameters |-> <<>>, importClause |-> 0,
      namedBindings |-> 0, exportClause |-> 0, elements |-> <<>>, type |-> 0, colonToken |-> -1],
     [kind |-> "Identifier", pos |-> 12, start |-> 12, end |-> 13, children |-> <<>>,
      expression |-> 0, name |-> 0, typeArguments |-> <<>>, arguments |-> <<>>, flags |-> {},
      initializer |-> 0, tagName |-> 0, typeParameters |-> <<>>, importClause |-> 0,
      namedBindings |-> 0, exportClause |-> 0, elements |-> <<>>, type |-> 0, colonToken |-> -1],
     [kind |-> "EndOfFileToken", pos |-> 20, start |-> 20, end |-> 20, children |-> <<>>,
      expression |-> 0, name |-> 0, typeArguments |-> <<>>, arguments |-> <<>>, flags |-> {},
      initializer |-> 0, tagName |-> 0, typeParameters |-> <<>>, importClause |-> 0,
      namedBindings |-> 0, exportClause |-> 0, elements |-> <<>>, type |-> 0, colonToken |-> -1]
   >>]

\* declare module "m"{React}
DocDeclareModule ==
  [text |-> <<"d", "e", "c", "l", "a", "r", "e", " ", "m", "o", "d", "u", "l", "e", " ", "\"", "m", "\"", "{", "R", "e", "a", "c", "t", "}">>,
   nodes |-> <<
     [kind |-> "SourceFile", pos |-> 0, start |-> 0, end |-> 25, children |-> <<2, 8>>,
      expression |-> 0, name |-> 0, typeArguments |-> <<>>, arguments |-> <<>>, flags |-> {},
      initializer |-> 0, tagName |-> 0, typeParameters |-> <<>>, importClause |-> 0,
      namedBindings |-> 0, exportClause |-> 0, elements |-> <<>>, type |-> 0, colonToken |-> -1],
     [kind |-> "ModuleDeclaration", pos |-> 0, start |-> 0, end |-> 25, children |-> <<3, 4, 5>>,
      expression |-> 0, name |-> 4, typeArguments |-> <<>>, arguments |-> <<>>, flags |-> {"declare"},
      initializer |-> 0, tagName |-> 0, typeParameters |-> <<>>, importClause |-> 0,
      namedBindings |-> 0, exportClause |-> 0, elements |-> <<>>, type |-> 0, colonToken |-> -1],
     [kind |-> "DeclareKeyword", pos |-> 0, start |-> 0, end |-> 7, children |-> <<>>,
      expression |-> 0, name |-> 0, typeArguments |-> <<>>, arguments |-> <<>>, flags |-> {},
      initializer |-> 0, tagName |-> 0, typeParameters |-> <<>>, importClause |-> 0,
      namedBindings |-> 0, exportClause |-> 0, elements |-> <<>>, type |-> 0, colonToken |-> -1],
     [kind |-> "StringLiteral", pos |-> 14, start |-> 15, end |-> 18, children |-> <<>>,
      expression |-> 0, name |-> 0, typeArguments |-> <<>>, arguments |-> <<>>, flags |-> {},
      initializer |-> 0, tagName |-> 0, typeParameters |-> <<>>, importClause |-> 0,
      namedBindings |-> 0, exportClause |-> 0, elements |-> <<>>, type |-> 0, colonToken |-> -1],
     [kind |-> "ModuleBlock", pos |-> 18, start |-> 18, end |-> 25, children |-> <<6>>,
      expression |-> 0, name |-> 0, typeArguments |-> <<>>, arguments |-> <<>>, flags |-> {},
      initializer |-> 0, tagName |-> 0, typeParameters |-> <<>>, importClause |-> 0,
      namedBindings |-> 0, exportClause |-> 0, elements |-> <<>>, type |-> 0, colonToken |-> -1],
     [kind |-> "ExpressionStatement", pos |-> 19, start |-> 19, end |-> 24, children |-> <<7>>,
      expression |-> 7, name |-> 0, typeArguments |-> <<>>, arguments |-> <<>>, flags |-> {},
      initializer |-> 0, tagName |-> 0, typeParameters |-> <<>>, importClause |-> 0,
      namedBindings |-> 0, exportClause |-> 0, elements |-> <<>>, type |-> 0, colonToken |-> -1],
     [kind |-> "Identifier", pos |-> 19, start |-> 19, end |-> 24, children |-> <<>>,
      expression |-> 0, name |-> 0, typeArguments |-> <<>>, arguments |-> <<>>, flags |-> {},
      initializer |-> 0, tagName |-> 0, typeParameters |-> <<>>, importClause |-> 0,
      namedBindings |-> 0, exportClause |-> 0, elements |-> <<>>, type |-> 0, colonToken |-> -1],
     [kind |-> "EndOfFileToken", pos |-> 25, start |-> 25, end |-> 25, children |-> <<>>,
      expression |-> 0, name |-> 0, typeArguments |-> <<>>, arguments |-> <<>>, flags |-> {},
      initializer |-> 0, tagName |-> 0, typeParameters |-> <<>>, importClause |-> 0,
      namedBindings |-> 0, exportClause |-> 0, elements |-> <<>>, type |-> 0, colonToken |-> -1]
   >>]

\* abstract class C<T>{}
DocAbstractClass ==
  [text |-> <<"a", "b", "s", "t", "r", "a", "c", "t", " ", "c", "l", "a", "s", "s", " ", "C", "<", "T", ">", "{", "}">>,
   nodes |-> <<
     [kind |-> "SourceFile", pos |-> 0, start |-> 0, end |-> 21, children |-> <<2, 7>>,
      expression |-> 0, name |-> 0, typeArguments |-> <<>>, arguments |-> <<>>, flags |-> {},
      initializer |-> 0, tagName |-> 0, typeParameters |-> <<>>, importClause |-> 0,
      namedBindings |-> 0, exportClause |-> 0, elements |-> <<>>, type |-> 0, colonToken |-> -1],
     [kind |-> "ClassDeclaration", pos |-> 0, start |-> 0, end |-> 21, children |-> <<3, 4, 5>>,
      expression |-> 0, name |-> 4, typeArguments |-> <<>>, arguments |-> <<>>, flags |-> {},
      initializer |-> 0, tagName |-> 0, typeParameters |-> <<5>>, importClause |-> 0,
      namedBindings |-> 0, exportClause |-> 0, elements |-> <<>>, type |-> 0, colonToken |-> -1],
     [kind |-> "AbstractKeyword", pos |-> 0, start |-> 0, end |-> 8, children |-> <<>>,
      expression |-> 0, name |-> 0, typeArguments |-> <<>>, arguments |-> <<>>, flags |-> {},
      initializer |-> 0, tagName |-> 0, typeParameters |-> <<>>, importClause |-> 0,
      namedBindings |-> 0, exportClause |-> 0, elements |-> <<>>, type |-> 0, colonToken |-> -1],
     [kind |-> "Identifier", pos |-> 14, start |-> 15, end |-> 16, children |-> <<>>,
      expression |-> 0, name |-> 0, typeArguments |-> <<>>, arguments |-> <<>>, flags |-> {},
      initializer |-> 0, tagName |-> 0, typeParameters |-> <<>>, importClause |-> 0,
      namedBindings |-> 0, exportClause |-> 0, elements |-> <<>>, type |-> 0, colonToken |-> -1],
     [kind |-> "TypeParameter", pos |-> 17, start |-> 17, end |-> 18, children |-> <<6>>,
      expression |-> 0, name |-> 6, typeArguments |-> <<>>, arguments |-> <<>>, flags |-> {},
      initializer |-> 0, tagName |-> 0, typeParameters |-> <<>>, importClause |-> 0,
      namedBindings |-> 0, exportClause |-> 0, elements |-> <<>>, type |-> 0, colonToken |-> -1],
     [kind |-> "Identifier", pos |-> 17, start |-> 17, end |-> 18, children |-> <<>>,
      expression |-> 0, name |-> 0, typeArguments |-> <<>>, arguments |-> <<>>, flags |-> {},
      initializer |-> 0, tagName |-> 0, typeParameters |-> <<>>, importClause |-> 0,
      namedBindings |-> 0, exportClause |-> 0, elements |-> <<>>, type |-> 0, colonToken |-> -1],
     [kind |-> "EndOfFileToken", pos |-> 21, start |-> 21, end |-> 21, children |-> <<>>,
      expression |-> 0, name |-> 0, typeArguments |-> <<>>, arguments |-> <<>>, flags |-> {},
      initializer |-> 0, tagName |-> 0, typeParameters |-> <<>>, importClause |-> 0,
      namedBindings |-> 0, exportClause |-> 0, elements |-> <<>>, type |-> 0, colonToken |-> -1]
   >>]

\* const x: string = "hello";
DocTyped ==
  [text |-> <<"c", "o", "n", "s", "t", " ", "x", ":", " ", "s", "t", "r", "i", "n", "g", " ", "=", " ", "\"", "h", "e", "l", "l", "o", "\"", ";">>,
   nodes |-> <<
     [kind |-> "SourceFile", pos |-> 0, start |-> 0, end |-> 26, children |-> <<2, 8>>,
      expression |-> 0, name |-> 0, typeArguments |-> <<>>, arguments |-> <<>>, flags |-> {},
      initializer |-> 0, tagName |-> 0, typeParameters |-> <<>>, importClause |-> 0,
      namedBindings |-> 0, exportClause |-> 0, elements |-> <<>>, type |-> 0, colonToken |-> -1],
     [kind |-> "VariableStatement", pos |-> 0, start |-> 0, end |-> 26, children |-> <<3>>,
      expression |-> 0, name |-> 0, typeArguments |-> <<>>, arguments |-> <<>>, flags |-> {},
      initializer |-> 0, tagName |-> 0, typeParameters |-> <<>>, importClause |-> 0,
      namedBindings |-> 0, exportClause |-> 0, elements |-> <<>>, type |-> 0, colonToken |-> -1],
     [kind |-> "VariableDeclarationList", pos |-> 0, start |-> 0, end |-> 25, children |-> <<4>>,
      expression |-> 0, name |-> 0, typeArguments |-> <<>>, arguments |-> <<>>, flags |-> {},
      initializer |-> 0, tagName |-> 0, typeParameters |-> <<>>, importClause |-> 0,
      namedBindings |-> 0, exportClause |-> 0, elements |-> <<>>, type |-> 0, colonToken |-> -1],
     [kind |-> "VariableDeclaration", pos |-> 5, start |-> 6, end |-> 25, children |-> <<5, 6, 7>>,
      expression |-> 0, name |-> 5, typeArguments |-> <<>>, arguments |-> <<>>, flags |-> {},
      initializer |-> 7, tagName |-> 0, typeParameters |-> <<>>, importClause |-> 0,
      namedBindings |-> 0, exportClause |-> 0, elements |-> <<>>, type |-> 6, colonToken |-> 7],
     [kind |-> "Identifier", pos |-> 5, start |-> 6, end |-> 7, children |-> <<>>,
      expression |-> 0, name |-> 0, typeArguments |-> <<>>, arguments |-> <<>>, flags |-> {},
      initializer |-> 0, tagName |-> 0, typeParameters |-> <<>>, importClause |-> 0,
      namedBindings |-> 0, exportClause |-> 0, elements |-> <<>>, type |-> 0, colonToken |-> -1],
     [kind |-> "StringKeyword", pos |-> 8, start |-> 9, end |-> 15, children |-> <<>>,
      expression |-> 0, name |-> 0, typeArguments |-> <<>>, arguments |-> <<>>, flags |-> {},
      initializer |-> 0, tagName |-> 0, typeParameters |-> <<>>, importClause |-> 0,
      namedBindings |-> 0, exportClause |-> 0, elements |-> <<>>, type |-> 0, colonToken |-> -1],
     [kind |-> "StringLiteral", pos |-> 17, start |-> 18, end |-> 25, children |-> <<>>,
      expression |-> 0, name |-> 0, typeArguments |-> <<>>, arguments |-> <<>>, flags |-> {},
      initializer |-> 0, tagName |-> 0, typeParameters |-> <<>>, importClause |-> 0,
      namedBindings |-> 0, exportClause |-> 0, elements |-> <<>>, type |-> 0, colonToken |-> -1],
     [kind |-> "EndOfFileToken", pos |-> 26, start |-> 26, end |-> 26, children |-> <<>>,
      expression |-> 0, name |-> 0, typeArguments |-> <<>>, arguments |-> <<>>, flags |-> {},
      initializer |-> 0, tagName |-> 0, typeParameters |-> <<>>, importClause |-> 0,
      namedBindings |-> 0, exportClause |-> 0, elements |-> <<>>, type |-> 0, colonToken |-> -1]
   >>]

\* const x:FC=f
DocTypedReact ==
  [text |-> <<"c", "o", "n", "s", "t", " ", "x", ":", "F", "C", "=", "f">>,
   nodes |-> <<
     [kind |-> "SourceFile", pos |-> 0, start |-> 0, end |-> 12, children |-> <<2, 9>>,
      expression |-> 0, name |-> 0, typeArguments |-> <<>>, arguments |-> <<>>, flags |-> {},
      initializer |-> 0, tagName |-> 0, typeParameters |-> <<>>, importClause |-> 0,
      namedBindings |-> 0, exportClause |-> 0, elements |-> <<>>, type |-> 0, colonToken |-> -1],
     [kind |-> "VariableStatement", pos |-> 0, start |-> 0, end |-> 12, children |-> <<3>>,
      expression |-> 0, name |-> 0, typeArguments |-> <<>>, arguments |-> <<>>, flags |-> {},
      initializer |-> 0, tagName |-> 0, typeParameters |-> <<>>, importClause |-> 0,
      namedBindings |-> 0, exportClause |-> 0, elements |-> <<>>, type |-> 0, colonToken |-> -1],
     [kind |-> "VariableDeclarationList", pos |-> 0, start |-> 0, end |-> 12, children |-> <<4>>,
      expression |-> 0, name |-> 0, typeArguments |-> <<>>, arguments |-> <<>>, flags |-> {},
      initializer |-> 0, tagName |-> 0, typeParameters |-> <<>>, importClause |-> 0,
      namedBindings |-> 0, exportClause |-> 0, elements |-> <<>>, type |-> 0, colonToken |-> -1],
     [kind |-> "VariableDeclaration", pos |-> 5, start |-> 6, end |-> 12, children |-> <<5, 6, 8>>,
      expression |-> 0, name |-> 5, typeArguments |-> <<>>, arguments |-> <<>>, flags |-> {},
      initializer |-> 8, tagName |-> 0, typeParameters |-> <<>>, importClause |-> 0,
      namedBindings |-> 0, exportClause |-> 0, elements |-> <<>>, type |-> 6, colonToken |-> 7],
     [kind |-> "Identifier", pos |-> 5, start |-> 6, end |-> 7, children |-> <<>>,
      expression |-> 0, name |-> 0, typeArguments |-> <<>>, arguments |-> <<>>, flags |-> {},
      initializer |-> 0, tagName |-> 0, typeParameters |-> <<>>, importClause |-> 0,
      namedBindings |-> 0, exportClause |-> 0, elements |-> <<>>, type |-> 0, colonToken |-> -1],
     [kind |-> "TypeReference", pos |-> 8, start |-> 8, end |-> 10, children |-> <<7>>,
      expression |-> 0, name |-> 7, typeArguments |-> <<>>, arguments |-> <<>>, flags |-> {},
      initializer |-> 0, tagName |-> 0, typeParameters |-> <<>>, importClause |-> 0,
      namedBindings |-> 0, exportClause |-> 0, elements |-> <<>>, type |-> 0, colonToken |-> -1],
     [kind |-> "Identifier", pos |-> 8, start |-> 8, end |-> 10, children |-> <<>>,
      expression |-> 0, name |-> 0, typeArguments |-> <<>>, arguments |-> <<>>, flags |-> {},
      initializer |-> 0, tagName |-> 0, typeParameters |-> <<>>, importClause |-> 0,
      namedBindings |-> 0, exportClause |-> 0, elements |-> <<>>, type |-> 0, colonToken |-> -1],
     [kind |-> "Identifier", pos |-> 11, start |-> 11, end |-> 12, children |-> <<>>,
      expression |-> 0, name |-> 0, typeArguments |-> <<>>, arguments |-> <<>>, flags |-> {},
      initializer |-> 0, tagName |-> 0, typeParameters |-> <<>>, importClause |-> 0,
      namedBindings |-> 0, exportClause |-> 0, elements |-> <<>>, type |-> 0, colonToken |-> -1],
     [kind |-> "EndOfFileToken", pos |-> 12, start |-> 12, end |-> 12, children |-> <<>>,
      expression |-> 0, name |-> 0, typeArguments |-> <<>>, arguments |-> <<>>, flags |-> {},
      initializer |-> 0, tagName |-> 0, typeParameters |-> <<>>, importClause |-> 0,
      namedBindings |-> 0, exportClause |-> 0, elements |-> <<>>, type |-> 0, colonToken |-> -1]
   >>]

\* function f(a?:T){}
DocOptional ==
  [text |-> <<"f", "u", "n", "c", "t", "i", "o", "n", " ", "f", "(", "a", "?", ":", "T", ")", "{", "}">>,
   nodes |-> <<
     [kind |-> "SourceFile", pos |-> 0, start |-> 0, end |-> 18, children |-> <<2, 10>>,
      expression |-> 0, name |-> 0, typeArguments |-> <<>>, arguments |-> <<>>, flags |-> {},
      initializer |-> 0, tagName |-> 0, typeParameters |-> <<>>, importClause |-> 0,
      namedBindings |-> 0, exportClause |-> 0, elements |-> <<>>, type |-> 0, colonToken |-> -1],
     [kind |-> "FunctionDeclaration", pos |-> 0, start |-> 0, end |-> 18, children |-> <<3, 4, 9>>,
      expression |-> 0, name |-> 3, typeArguments |-> <<>>, arguments |-> <<>>, flags |-> {},
      initializer |-> 0, tagName |-> 0, typeParameters |-> <<>>, importClause |-> 0,
      namedBindings |-> 0, exportClause |-> 0, elements |-> <<>>, type |-> 0, colonToken |-> -1],
     [kind |-> "Identifier", pos |-> 8, start |-> 9, end |-> 10, children |-> <<>>,
      expression |-> 0, name |-> 0, typeArguments |-> <<>>, arguments |-> <<>>, flags |-> {},
      initializer |-> 0, tagName |-> 0, typeParameters |-> <<>>, importClause |-> 0,
      namedBindings |-> 0, exportClause |-> 0, elements |-> <<>>, type |-> 0, colonToken |-> -1],
     [kind |-> "Parameter", pos |-> 11, start |-> 11, end |-> 15, children |-> <<5, 6, 7>>,
      expression |-> 0, name |-> 5, typeArguments |-> <<>>, arguments |-> <<>>, flags |-> {},
      initializer |-> 0, tagName |-> 0, typeParameters |-> <<>>, importClause |-> 0,
      namedBindings |-> 0, exportClause |-> 0, elements |-> <<>>, type |-> 7, colonToken |-> 13],
     [kind |-> "Identifier", pos |-> 11, start |-> 11, end |-> 12, children |-> <<>>,
      expression |-> 0, name |-> 0, typeArguments |-> <<>>, arguments |-> <<>>, flags |-> {},
      initializer |-> 0, tagName |-> 0, typeParameters |-> <<>>, importClause |-> 0,
      namedBindings |-> 0, exportClause |-> 0, elements |-> <<>>, type |-> 0, colonToken |-> -1],
     [kind |-> "QuestionToken", pos |-> 12, start |-> 12, end |-> 13, children |-> <<>>,
      expression |-> 0, name |-> 0, typeArguments |-> <<>>, arguments |-> <<>>, flags |-> {},
      initializer |-> 0, tagName |-> 0, typeParameters |-> <<>>, importClause |-> 0,
      namedBindings |-> 0, exportClause |-> 0, elements |-> <<>>, type |-> 0, colonToken |-> -1],
     [kind |-> "TypeReference", pos |-> 14, start |-> 14, end |-> 15, children |-> <<8>>,
      expression |-> 0, name |-> 8, typeArguments |-> <<>>, arguments |-> <<>>, flags |-> {},
      initializer |-> 0, tagName |-> 0, typeParameters |-> <<>>, importClause |-> 0,
      namedBindings |-> 0, exportClause |-> 0, elements |-> <<>>, type |-> 0, colonToken |-> -1],
     [kind |-> "Identifier", pos |-> 14, start |-> 14, end |-> 15, children |-> <<>>,
      expression |-> 0, name |-> 0, typeArguments |-> <<>>, arguments |-> <<>>, flags |-> {},
      initializer |-> 0, tagName |-> 0, typeParameters |-> <<>>, importClause |-> 0,
      namedBindings |-> 0, exportClause |-> 0, elements |-> <<>>, type |-> 0, colonToken |-> -1],
     [kind |-> "Block", pos |-> 16, start |-> 16, end |-> 18, children |-> <<>>,
      expression |-> 0, name |-> 0, typeArguments |-> <<>>, arguments |-> <<>>, flags |-> {},
      initializer |-> 0, tagName |-> 0, typeParameters |-> <<>>, importClause |-> 0,
      namedBindings |-> 0, exportClause |-> 0, elements |-> <<>>, type |-> 0, colonToken |-> -1],
     [kind |-> "EndOfFileToken", pos |-> 18, start |-> 18, end |-> 18, children |-> <<>>,
      expression |-> 0, name |-> 0, typeArguments |-> <<>>, arguments |-> <<>>, flags |-> {},
      initializer |-> 0, tagName |-> 0, typeParameters |-> <<>>, importClause |-> 0,
      namedBindings |-> 0, exportClause |-> 0, elements |-> <<>>, type |-> 0, colonToken |-> -1]
   >>]

\* class C{constructor(public a:T){}}
DocParamProp ==
  [text |-> <<"c", "l", "a", "s", "s", " ", "C", "{", "c", "o", "n", "s", "t", "r", "u", "c", "t", "o", "r", "(", "p", "u", "b", "l", "i", "c", " ", "a", ":", "T", ")", "{", "}", "}">>,
   nodes |-> <<
     [kind |-> "SourceFile", pos |-> 0, start |-> 0, end |-> 34, children |-> <<2, 11>>,
      expression |-> 0, name |-> 0, typeArguments |-> <<>>, arguments |-> <<>>, flags |-> {},
      initializer |-> 0, tagName |-> 0, typeParameters |-> <<>>, importClause |-> 0,
      namedBindings |-> 0, exportClause |-> 0, elements |-> <<>>, type |-> 0, colonToken |-> -1],
     [kind |-> "ClassDeclaration", pos |-> 0, start |-> 0, end |-> 34, children |-> <<3, 4>>,
      expression |-> 0, name |-> 3, typeArguments |-> <<>>, arguments |-> <<>>, flags |-> {},
      initializer |-> 0, tagName |-> 0, typeParameters |-> <<>>, importClause |-> 0,
      namedBindings |-> 0, exportClause |-> 0, elements |-> <<>>, type |-> 0, colonToken |-> -1],
     [kind |-> "Identifier", pos |-> 5, start |-> 6, end |-> 7, children |-> <<>>,
      expression |-> 0, name |-> 0, typeArguments |-> <<>>, arguments |-> <<>>, flags |-> {},
      initializer |-> 0, tagName |-> 0, typeParameters |-> <<>>, importClause |-> 0,
      namedBindings |-> 0, exportClause |-> 0, elements |-> <<>>, type |-> 0, colonToken |-> -1],
     [kind |-> "Constructor", pos |-> 8, start |-> 8, end |-> 33, children |-> <<5, 10>>,
      expression |-> 0, name |-> 0, typeArguments |-> <<>>, arguments |-> <<>>, flags |-> {},
      initializer |-> 0, tagName |-> 0, typeParameters |-> <<>>, importClause |-> 0,
      namedBindings |-> 0, exportClause |-> 0, elements |-> <<>>, type |-> 0, colonToken |-> -1],
     [kind |-> "Parameter", pos |-> 20, start |-> 20, end |-> 30, children |-> <<6, 7, 8>>,
      expression |-> 0, name |-> 7, typeArguments |-> <<>>, arguments |-> <<>>, flags |-> {},
      initializer |-> 0, tagName |-> 0, typeParameters |-> <<>>, importClause |-> 0,
      namedBindings |-> 0, exportClause |-> 0, elements |-> <<>>, type |-> 8, colonToken |-> 28],
     [kind |-> "PublicKeyword", pos |-> 20, start |-> 20, end |-> 26, children |-> <<>>,
      expression |-> 0, name |-> 0, typeArguments |-> <<>>, arguments |-> <<>>, flags |-> {},
      initializer |-> 0, tagName |-> 0, typeParameters |-> <<>>, importClause |-> 0,
      namedBindings |-> 0, exportClause |-> 0, elements |-> <<>>, type |-> 0, colonToken |-> -1],
     [kind |-> "Identifier", pos |-> 26, start |-> 27, end |-> 28, children |-> <<>>,
      expression |-> 0, name |-> 0, typeArguments |-> <<>>, arguments |-> <<>>, flags |-> {},
      initializer |-> 0, tagName |-> 0, typeParameters |-> <<>>, importClause |-> 0,
      namedBindings |-> 0, exportClause |-> 0, elements |-> <<>>, type |-> 0, colonToken |-> -1],
     [kind |-> "TypeReference", pos |-> 29, start |-> 29, end |-> 30, children |-> <<9>>,
      expression |-> 0, name |-> 9, typeArguments |-> <<>>, arguments |-> <<>>, flags |-> {},
      initializer |-> 0, tagName |-> 0, typeParameters |-> <<>>, importClause |-> 0,
      namedBindings |-> 0, exportClause |-> 0, elements |-> <<>>, type |-> 0, colonToken |-> -1],
     [kind |-> "Identifier", pos |-> 29, start |-> 29, end |-> 30, children |-> <<>>,
      expression |-> 0, name |-> 0, typeArguments |-> <<>>, arguments |-> <<>>, flags |-> {},
      initializer |-> 0, tagName |-> 0, typeParameters |-> <<>>, importClause |-> 0,
      namedBindings |-> 0, exportClause |-> 0, elements |-> <<>>, type |-> 0, colonToken |-> -1],
     [kind |-> "Block", pos |-> 31, start |-> 31, end |-> 33, children |-> <<>>,
      expression |-> 0, name |-> 0, typeArguments |-> <<>>, arguments |-> <<>>, flags |-> {},
      initializer |-> 0, tagName |-> 0, typeParameters |-> <<>>, importClause |-> 0,
      namedBindings |-> 0, exportClause |-> 0, elements |-> <<>>, type |-> 0, colonToken |-> -1],
     [kind |-> "EndOfFileToken", pos |-> 34, start |-> 34, end |-> 34, children |-> <<>>,
      expression |-> 0, name |-> 0, typeArguments |-> <<>>, arguments |-> <<>>, flags |-> {},
      initializer |-> 0, tagName |-> 0, typeParameters |-> <<>>, importClause |-> 0,
      namedBindings |-> 0, exportClause |-> 0, elements |-> <<>>, type |-> 0, colonToken |-> -1]
   >>]

\* the catalogue: every document the model classifies
Docs ==
  <<DocEmpty,
    DocBlank,
    DocHook,
    DocHookTyped,
    DocCustom,
    DocReactHook,
    DocUtil,
    DocEnumAccess,
    DocAccessEnum,
    DocAccess,
    DocStmts,
    DocConst,
    DocDirective,
    DocComment,
    DocNew,
    DocReactCall,
    DocCreate,
    DocCreateBare,
    DocCreateFragment,
    DocNoClose,
    DocFnNoClose,
    DocFn,
    DocNested,
    DocArrowArg,
    DocReactTyped,
    DocStrict,
    DocServer,
    DocJsxAttr,
    DocLineComment,
    DocLeadComment,
    DocEnumComment,
    DocLostComment,
    DocImportType,
    DocExportType,
    DocImportMixed,
    DocExportMixed,
    DocImportAlias,
    DocImportReact,
    DocTypeAlias,
    DocTypeReact,
    DocTypeGeneric,
    DocInterface,
    DocDeclareConst,
    DocDeclareFunction,
    DocDeclareClass,
    DocNamespace,
    DocDeclareModule,
    DocAbstractClass,
    DocTyped,
    DocTypedReact,
    DocOptional,
    DocParamProp>>

\* the documents that are classified again and again, call after call
SessionDocs ==
  <<DocEmpty,
    DocBlank,
    DocHook,
    DocHookTyped,
    DocCustom,
    DocReactHook,
    DocUtil,
    DocEnumAccess,
    DocAccessEnum,
    DocAccess,
    DocStmts,
    DocConst,
    DocDirective,
    DocComment,
    DocNew>>

DocIds == 1..Len(Docs)

\* the catalogue indices of the documents of SessionDocs
SessionIds ==
  {i \in DocIds : \E j \in 1..Len(SessionDocs) : Docs[i] = SessionDocs[j]}

\* ------------------------------------------------------------ node queries

\* node.kind, for an optional node
KindOf(d, n) == IF n = 0 THEN "none" ELSE d.nodes[n].kind

\* node.getText(sourceFile)
getText(d, n) == Slice(d.text, d.nodes[n].start, d.nodes[n].end)

\* node.text of a StringLiteral: the literal without its quotes
StringLiteralText(d, n) ==
  Slice(d.text, d.nodes[n].start + 1, d.nodes[n].end - 1)

\* ts.isIdentifier(n) && n.text: the catalogue's identifiers hold no escapes
IsIdentifier(d, n) == KindOf(d, n) = "Identifier"

\* one candidate as a branch of visit hands it to addRegion
Candidate(start, end, layer) == [start |-> start, end |-> end, layer |-> layer]

\* what one invocation of visit does before it returns: the addRegion calls
\* in order, the children it re-enters in order, the enum names it tracks
Visited(regions, kids, enums) ==
  [regions |-> regions, kids |-> kids, enums |-> enums]

\* ---------------------------------------------------------------- addRegion

\* addRegion(start, end, layer): pushes onto rawRegions when start < end
addRegion(rawRegions, start, end, layer) ==
  IF start < end
  THEN Append(rawRegions, [start |-> start, end |-> end, layer |-> layer,
                           priority |-> PRIORITY(layer)])
  ELSE rawRegions

RECURSIVE addRegions(_, _)
\* the addRegion calls of one visit, in order
addRegions(rawRegions, candidates) ==
  IF candidates = <<>> THEN rawRegions
  ELSE addRegions(addRegion(rawRegions, Head(candidates).start,
                            Head(candidates).end, Head(candidates).layer),
                  Tail(candidates))

\* -------------------------------------------------------------- classifyNode

\* isTypeScriptNode(node)
isTypeScriptNode(d, n) ==
  KindOf(d, n) \in
    {"TypeAliasDeclaration", "InterfaceDeclaration", "TypeReference",
     "TypeLiteral", "EnumDeclaration", "TypeParameter", "TypePredicate",
     "TypeQuery", "TypeOperator", "IndexedAccessType", "MappedType",
     "ConditionalType", "InferType", "UnionType", "IntersectionType",
     "ArrayType", "TupleType", "LiteralType", "FunctionType",
     "ConstructorType", "ParenthesizedType", "ThisType"}

\* isJsxStructuralNode(node)
isJsxStructuralNode(d, n) ==
  KindOf(d, n) \in {"JsxOpeningFragment", "JsxClosingFragment", "JsxText"}

\* isJavaScriptNode(node)
isJavaScriptNode(d, n) ==
  KindOf(d, n) \in
    {"VariableDeclaration", "VariableStatement", "FunctionDeclaration",
     "ArrowFunction", "FunctionExpression", "PropertyAccessExpression",
     "ElementAccessExpression", "ObjectLiteralExpression",
     "ArrayLiteralExpression", "ConditionalExpression", "BinaryExpression",
     "PrefixUnaryExpression", "PostfixUnaryExpression", "TemplateExpression",
     "IfStatement", "ForStatement", "ForInStatement", "ForOfStatement",
     "WhileStatement", "DoStatement", "SwitchStatement", "TryStatement",
     "ThrowStatement", "ReturnStatement", "ClassDeclaration",
     "ImportDeclaration", "ExportDeclaration", "ExportAssignment",
     "AwaitExpression", "SpreadElement", "Parameter", "Identifier",
     "StringLiteral", "NumericLiteral", "ParenthesizedExpression"}

\* "JSX."
JsxDot == <<"J", "S", "X", ".">>

\* A mutant of classifyNode: a type reference is typescript whatever it names.
classifyNode_PlainTypes(d, n) ==
  IF isTypeScriptNode(d, n) THEN "typescript"
  ELSE IF isJsxStructuralNode(d, n) THEN "jsx"
  ELSE IF IsIdentifier(d, n) /\ getText(d, n) = ReactName THEN "react"
  ELSE IF isJavaScriptNode(d, n) THEN "javascript"
  ELSE NoLayer

\* classifyNode(node, sourceFile)
classifyNode(d, n) ==
  IF isTypeScriptNode(d, n)
  THEN IF KindOf(d, n) = "TypeReference"
          /\ LET typeName == getText(d, d.nodes[n].name)
             IN  \/ StartsWith(typeName, ReactDot)
                 \/ StartsWith(typeName, JsxDot)
                 \/ typeName \in REACT_TYPES
       THEN "react"
       ELSE "typescript"
  ELSE IF isJsxStructuralNode(d, n) THEN "jsx"
  ELSE IF IsIdentifier(d, n) /\ getText(d, n) = ReactName THEN "react"
  ELSE IF isJavaScriptNode(d, n) THEN "javascript"
  ELSE NoLayer

\* --------------------------------------------------------------------- visit

\* A mutant of typeArgumentRegions: when no matching close is found the list
\* is taken to run to the end of the text.
typeArgumentRegions_ToEndOfText(d, typeArguments) ==
  IF Len(typeArguments) > 0
  THEN LET firstTypeArg == d.nodes[typeArguments[1]]
           openBracket == findOpeningBracket(d.text, firstTypeArg.start - 1)
           closeBracket == findMatchingCloseBracket(d.text, openBracket)
       IN  IF openBracket # -1
           THEN <<Candidate(openBracket,
                            IF closeBracket # -1 THEN closeBracket + 1 ELSE Len(d.text),
                            "typescript")>>
           ELSE <<>>
  ELSE <<>>

\* the candidate for an explicit type-argument list: the opening '<' is found
\* backwards from the first type argument, its close by depth counting
typeArgumentRegions(d, typeArguments) ==
  IF Len(typeArguments) > 0
  THEN LET firstTypeArg == d.nodes[typeArguments[1]]
           openBracket == findOpeningBracket(d.text, firstTypeArg.start - 1)
           closeBracket == findMatchingCloseBracket(d.text, openBracket)
       IN  IF openBracket # -1 /\ closeBracket # -1
           THEN <<Candidate(openBracket, closeBracket + 1, "typescript")>>
           ELSE <<>>
  ELSE <<>>

\* "ref"
RefName == <<"r", "e", "f">>

\* const REACT_JSX_ATTRIBUTES = new Set(["key", "ref"])
REACT_JSX_ATTRIBUTES == {KeyName, RefName}

\* the tag name is React.* (e.g. React.Fragment)
IsReactTagName(d, tagName) ==
  /\ KindOf(d, tagName) = "PropertyAccessExpression"
  /\ IsIdentifier(d, d.nodes[tagName].expression)
  /\ getText(d, d.nodes[tagName].expression) = ReactName

\* JSX self-closing element: '<' and the tag name, the type arguments, '/>'
visitJsxSelfClosingElement(d, n) ==
  LET node == d.nodes[n]
      tagName == d.nodes[node.tagName]
  IN  Visited(
        (IF IsReactTagName(d, node.tagName)
         THEN <<Candidate(node.start, node.start + 1, "jsx"),
                Candidate(tagName.start, tagName.end, "react")>>
         ELSE <<Candidate(node.start, tagName.end, "jsx")>>)
          \o typeArgumentRegions(d, node.typeArguments)
          \o <<Candidate(node.end - 2, node.end, "jsx")>>,
        node.children, {})

\* JSX expression: the braces are jsx, the content is classified by recursion
visitJsxExpression(d, n) ==
  LET node == d.nodes[n]
  IN  Visited(
        <<Candidate(node.start, node.start + 1, "jsx")>>
          \o (IF CharAt(d.text, node.end - 1) = "}"
              THEN <<Candidate(node.end - 1, node.end, "jsx")>>
              ELSE <<>>),
        node.children, {})

\* A mutant of visitJsxAttribute: only the name is classified.
visitJsxAttribute_NameOnly(d, n) ==
  LET node == d.nodes[n]
      nameNode == d.nodes[node.name]
  IN  Visited(
        IF IsIdentifier(d, node.name)
        THEN IF getText(d, node.name) \in REACT_JSX_ATTRIBUTES
             THEN <<Candidate(nameNode.start, nameNode.end, "react")>>
             ELSE <<Candidate(nameNode.start, nameNode.end, "jsx")>>
        ELSE <<>>,
        <<>>, {})

\* JSX attribute: name, '=', string-literal value; a JsxExpression value is
\* visited
visitJsxAttribute(d, n) ==
  LET node == d.nodes[n]
      nameNode == d.nodes[node.name]
      nameEnd == nameNode.end
      initializer == node.initializer
  IN  Visited(
        (IF IsIdentifier(d, node.name)
         THEN IF getText(d, node.name) \in REACT_JSX_ATTRIBUTES
              THEN <<Candidate(nameNode.start, nameEnd, "react")>>
              ELSE <<Candidate(nameNode.start, nameEnd, "jsx")>>
         ELSE <<>>)
          \o (IF initializer # 0
              THEN <<Candidate(nameEnd, d.nodes[initializer].start, "jsx")>>
                     \o (IF KindOf(d, initializer) = "StringLiteral"
                         THEN <<Candidate(d.nodes[initializer].start,
                                          d.nodes[initializer].end, "jsx")>>
                         ELSE <<>>)
              ELSE <<>>),
        IF initializer # 0 /\ KindOf(d, initializer) = "JsxExpression"
        THEN <<initializer>> ELSE <<>>,
        {})

\* directive prologues: an expression statement that is just a string literal
IsDirective(d, n) ==
  /\ KindOf(d, n) = "ExpressionStatement"
  /\ KindOf(d, d.nodes[n].expression) = "StringLiteral"

visitDirective(d, n) ==
  LET node == d.nodes[n]
      directive == StringLiteralText(d, node.expression)
  IN  IF directive \in REACT_DIRECTIVES
      THEN Visited(<<Candidate(node.start, node.end, "react")>>, <<>>, {})
      ELSE Visited(<<Candidate(node.start, node.end, "javascript")>>, <<>>, {})

\* variable statements: declare, using / await using, regular
visitVariableStatement(d, n) ==
  LET node == d.nodes[n]
      lists == {i \in 1..Len(node.children) :
                  KindOf(d, node.children[i]) = "VariableDeclarationList"}
      declarationList == d.nodes[node.children[CHOOSE i \in lists : TRUE]]
      whole == Candidate(node.start, node.end, "javascript")
  IN  IF "declare" \in node.flags
      THEN Visited(<<Candidate(node.start, node.end, "typescript")>>, <<>>, {})
      ELSE IF "using" \in node.flags
      THEN Visited(
             (IF Len(declarationList.children) > 0
              THEN <<Candidate(declarationList.start,
                               d.nodes[declarationList.children[1]].start,
                               "typescript")>>
              ELSE <<>>) \o <<whole>>,
             node.children, {})
      ELSE Visited(<<whole>>, node.children, {})

\* interface declarations: the whole is typescript, then forEachChild
visitInterfaceDeclaration(d, n) ==
  Visited(<<Candidate(d.nodes[n].start, d.nodes[n].end, "typescript")>>,
          d.nodes[n].children, {})

\* type alias declarations: the whole is typescript, then forEachChild
visitTypeAliasDeclaration(d, n) ==
  Visited(<<Candidate(d.nodes[n].start, d.nodes[n].end, "typescript")>>,
          d.nodes[n].children, {})

\* A mutant of visitEnumDeclaration: the enum name is not tracked.
visitEnumDeclaration_Untracked(d, n) ==
  Visited(<<Candidate(d.nodes[n].start, d.nodes[n].end, "typescript")>>, <<>>, {})

\* enum declarations: track the name, the whole declaration is typescript
visitEnumDeclaration(d, n) ==
  LET node == d.nodes[n]
  IN  Visited(<<Candidate(node.start, node.end, "typescript")>>, <<>>,
              IF node.name # 0 THEN {getText(d, node.name)} ELSE {})

\* property access on enums: the base is an identifier in enumNames
IsEnumAccess(d, n, enumNames) ==
  /\ KindOf(d, n) = "PropertyAccessExpression"
  /\ IsIdentifier(d, d.nodes[n].expression)
  /\ getText(d, d.nodes[n].expression) \in enumNames

visitEnumAccess(d, n) ==
  Visited(<<Candidate(d.nodes[n].start, d.nodes[n].end, "typescript")>>, <<>>, {})

\* A mutant of visitModuleDeclaration: the walk goes on into the declaration.
visitModuleDeclaration_Descends(d, n) ==
  Visited(<<Candidate(d.nodes[n].start, d.nodes[n].end, "typescript")>>,
          d.nodes[n].children, {})

\* module and namespace declarations: the whole is typescript, no descent
visitModuleDeclaration(d, n) ==
  Visited(<<Candidate(d.nodes[n].start, d.nodes[n].end, "typescript")>>, <<>>, {})

\* the name of each specifier whose name is in REACT_TYPES is react
reactTypeNames(d, elements) ==
  LET tracked == SelectSeq(elements,
                   LAMBDA s : getText(d, d.nodes[s].name) \in REACT_TYPES)
  IN  [i \in 1..Len(tracked) |->
         Candidate(d.nodes[d.nodes[tracked[i]].name].start,
                   d.nodes[d.nodes[tracked[i]].name].end, "react")]

RECURSIVE typeOnlySpecifiers(_, _)
\* of each specifier that is type-only: from its start to its name typescript,
\* its name react when in REACT_TYPES and typescript otherwise
typeOnlySpecifiers(d, elements) ==
  IF elements = <<>> THEN <<>>
  ELSE LET specifier == d.nodes[Head(elements)]
           name == d.nodes[specifier.name]
       IN  (IF "typeOnly" \in specifier.flags
            THEN <<Candidate(specifier.start, name.start, "typescript"),
                   Candidate(name.start, name.end,
                             IF getText(d, specifier.name) \in REACT_TYPES
                             THEN "react" ELSE "typescript")>>
            ELSE <<>>)
           \o typeOnlySpecifiers(d, Tail(elements))

\* A mutant of visitImportDeclaration: a mixed import is handled as a
\* regular one, its type-only specifiers are not looked at.
visitImportDeclaration_Regular(d, n) ==
  LET node == d.nodes[n]
      clause == node.importClause
      bindings == IF clause # 0 THEN d.nodes[clause].namedBindings ELSE 0
      elements == IF bindings # 0 /\ KindOf(d, bindings) = "NamedImports"
                  THEN d.nodes[bindings].elements ELSE <<>>
  IN  IF clause # 0 /\ "typeOnly" \in d.nodes[clause].flags
      THEN Visited(<<Candidate(node.start, node.end, "typescript")>>
                     \o reactTypeNames(d, elements), <<>>, {})
      ELSE Visited(<<Candidate(node.start, node.end, "javascript")>>,
                   node.children, {})

\* import declarations
visitImportDeclaration(d, n) ==
  LET node == d.nodes[n]
      clause == node.importClause
      bindings == IF clause # 0 THEN d.nodes[clause].namedBindings ELSE 0
      elements == IF bindings # 0 /\ KindOf(d, bindings) = "NamedImports"
                  THEN d.nodes[bindings].elements ELSE <<>>
  IN  IF clause # 0 /\ "typeOnly" \in d.nodes[clause].flags
      THEN Visited(<<Candidate(node.start, node.end, "typescript")>>
                     \o reactTypeNames(d, elements), <<>>, {})
      ELSE Visited(<<Candidate(node.start, node.end, "javascript")>>
                     \o typeOnlySpecifiers(d, elements), node.children, {})

\* export declarations
visitExportDeclaration(d, n) ==
  LET node == d.nodes[n]
      clause == node.exportClause
      elements == IF clause # 0 /\ KindOf(d, clause) = "NamedExports"
                  THEN d.nodes[clause].elements ELSE <<>>
  IN  IF "typeOnly" \in node.flags
      THEN Visited(<<Candidate(node.start, node.end, "typescript")>>
                     \o reactTypeNames(d, elements), <<>>, {})
      ELSE Visited(<<Candidate(node.start, node.end, "javascript")>>
                     \o typeOnlySpecifiers(d, elements), node.children, {})

\* the callee alone is react, the whole call javascript, then forEachChild
calleeIsReact(d, n) ==
  LET node == d.nodes[n]
      callee == d.nodes[node.expression]
  IN  <<Candidate(callee.start, callee.end, "react"),
        Candidate(node.start, node.end, "javascript")>>

\* React.createElement / createElement: callee, component, key
createElementRegions(d, n) ==
  LET node == d.nodes[n]
      callee == d.nodes[node.expression]
      firstArg == IF Len(node.arguments) >= 1 THEN node.arguments[1] ELSE 0
      propsArg == IF Len(node.arguments) >= 2 THEN node.arguments[2] ELSE 0
      keys == IF KindOf(d, propsArg) = "ObjectLiteralExpression"
              THEN SelectSeq(d.nodes[propsArg].children,
                     LAMBDA prop :
                       /\ KindOf(d, prop) = "PropertyAssignment"
                       /\ IsIdentifier(d, d.nodes[prop].name)
                       /\ getText(d, d.nodes[prop].name) = KeyName)
              ELSE <<>>
  IN  <<Candidate(callee.start, callee.end, "react")>>
      \o (IF firstArg # 0
             /\ \/ IsIdentifier(d, firstArg) /\ isPascalCase(getText(d, firstArg))
                \/ /\ KindOf(d, firstArg) = "PropertyAccessExpression"
                   /\ getText(d, d.nodes[firstArg].expression) = ReactName
          THEN <<Candidate(d.nodes[firstArg].start, d.nodes[firstArg].end, "react")>>
          ELSE <<>>)
      \o [i \in 1..Len(keys) |->
            Candidate(d.nodes[d.nodes[keys[i]].name].start,
                      d.nodes[d.nodes[keys[i]].name].end, "react")]

\* "use"
UsePrefix == <<"u", "s", "e">>

\* A mutant of visitCallExpression: every callee that starts with "use" is
\* taken for a hook.
visitCallExpression_UsePrefix(d, n) ==
  LET node == d.nodes[n]
      callee == getText(d, node.expression)
      typeArgs == typeArgumentRegions(d, node.typeArguments)
  IN  IF callee \in REACT_HOOKS \/ StartsWith(callee, UsePrefix)
      THEN Visited(typeArgs \o calleeIsReact(d, n), node.children, {})
      ELSE Visited(typeArgs \o <<Candidate(node.start, node.end, "javascript")>>,
                   node.children, {})

\* A mutant of visitCallExpression: a hook call returns without forEachChild
\* and without the javascript candidate for the call.
visitCallExpression_HookOnly(d, n) ==
  LET node == d.nodes[n]
      callee == getText(d, node.expression)
      typeArgs == typeArgumentRegions(d, node.typeArguments)
  IN  IF callee \in REACT_HOOKS
      THEN Visited(typeArgs \o <<Candidate(d.nodes[node.expression].start,
                                           d.nodes[node.expression].end, "react")>>,
                   <<>>, {})
      ELSE Visited(typeArgs \o <<Candidate(node.start, node.end, "javascript")>>,
                   node.children, {})

\* call expressions
visitCallExpression(d, n) ==
  LET node == d.nodes[n]
      callee == getText(d, node.expression)
      typeArgs == typeArgumentRegions(d, node.typeArguments)
  IN  IF callee \in REACT_HOOKS
      THEN Visited(typeArgs \o calleeIsReact(d, n), node.children, {})
      ELSE IF IsQualifiedHook(callee)
      THEN Visited(typeArgs \o calleeIsReact(d, n), node.children, {})
      ELSE IF callee \in REACT_UTILS
      THEN Visited(typeArgs \o calleeIsReact(d, n), node.children, {})
      ELSE IF callee = ReactCreateElement \/ callee = CreateElement
      THEN Visited(typeArgs \o createElementRegions(d, n), node.children, {})
      ELSE IF StartsWith(callee, ReactDot)
      THEN Visited(typeArgs \o calleeIsReact(d, n), node.children, {})
      ELSE Visited(typeArgs \o <<Candidate(node.start, node.end, "javascript")>>,
                   node.children, {})

\* findTypeParameterListRange(typeParameters, sourceText, sourceFile):
\* <<start, end>> of the list with its brackets, or <<>> for null
findTypeParameterListRange(d, typeParameters) ==
  IF Len(typeParameters) = 0 THEN <<>>
  ELSE LET firstParam == d.nodes[typeParameters[1]]
           openBracket == findOpeningBracket(d.text, firstParam.start - 1)
           closeBracket == findMatchingCloseBracket(d.text, openBracket)
       IN  IF openBracket = -1 THEN <<>>
           ELSE IF closeBracket = -1 THEN <<>>
           ELSE <<openBracket, closeBracket + 1>>

\* the candidate for a type-parameter list: if (range) addRegion(range[0], range[1], "typescript")
typeParameterRegions(d, typeParameters) ==
  IF Len(typeParameters) > 0
  THEN LET range == findTypeParameterListRange(d, typeParameters)
       IN  IF range # <<>>
           THEN <<Candidate(range[1], range[2], "typescript")>>
           ELSE <<>>
  ELSE <<>>

\* the candidate for a return type or type annotation: from the colon token
\* that findColonToken finds among the node's children to the end of the type
typeAnnotationRegions(d, n) ==
  LET node == d.nodes[n]
  IN  IF node.type # 0 /\ node.colonToken # -1
      THEN <<Candidate(node.colonToken, d.nodes[node.type].end, "typescript")>>
      ELSE <<>>

\* variable declarations with a type: javascript, the colon to the end of
\* the type typescript, then forEachChild
visitVariableDeclaration(d, n) ==
  Visited(<<Candidate(d.nodes[n].start, d.nodes[n].end, "javascript")>>
            \o typeAnnotationRegions(d, n),
          d.nodes[n].children, {})

\* the candidate for the type annotation of a parameter: from the question
\* token if there is one, else from the colon, to the end of the type
parameterAnnotationRegions(d, n) ==
  LET node == d.nodes[n]
      question == SelectSeq(node.children,
                    LAMBDA m : KindOf(d, m) = "QuestionToken")
      start == IF question # <<>> THEN d.nodes[Head(question)].start
               ELSE node.colonToken
  IN  IF node.type # 0 /\ node.colonToken # -1
      THEN <<Candidate(start, d.nodes[node.type].end, "typescript")>>
      ELSE <<>>

\* the candidates for the access modifiers of a parameter
parameterModifierRegions(d, n) ==
  LET modifiers == SelectSeq(d.nodes[n].children,
                     LAMBDA m : KindOf(d, m) \in
                       {"PublicKeyword", "PrivateKeyword",
                        "ProtectedKeyword", "ReadonlyKeyword"})
  IN  [i \in 1..Len(modifiers) |->
         Candidate(d.nodes[modifiers[i]].start, d.nodes[modifiers[i]].end,
                   "typescript")]

\* A mutant of visitParameter: the annotation starts at the colon also when
\* the parameter has a question token.
visitParameter_FromColon(d, n) ==
  Visited(<<Candidate(d.nodes[n].start, d.nodes[n].end, "javascript")>>
            \o parameterModifierRegions(d, n)
            \o typeAnnotationRegions(d, n),
          d.nodes[n].children, {})

\* parameters: javascript, access modifiers typescript, the annotation
\* typescript, then forEachChild
visitParameter(d, n) ==
  Visited(<<Candidate(d.nodes[n].start, d.nodes[n].end, "javascript")>>
            \o parameterModifierRegions(d, n)
            \o parameterAnnotationRegions(d, n),
          d.nodes[n].children, {})

RECURSIVE typeArgumentsOfEach(_, _)
\* the type-argument list of each of the types
typeArgumentsOfEach(d, types) ==
  IF types = <<>> THEN <<>>
  ELSE typeArgumentRegions(d, d.nodes[Head(types)].typeArguments)
         \o typeArgumentsOfEach(d, Tail(types))

RECURSIVE heritageRegions(_, _)
\* of each type of each heritage clause in clauses, the type-argument list
heritageRegions(d, clauses) ==
  IF clauses = <<>> THEN <<>>
  ELSE typeArgumentsOfEach(d, d.nodes[Head(clauses)].children)
         \o heritageRegions(d, Tail(clauses))

\* class declarations: declare, else javascript with the abstract keyword,
\* the type parameters and the heritage type arguments typescript
visitClassDeclaration(d, n) ==
  LET node == d.nodes[n]
      abstract == SelectSeq(node.children,
                    LAMBDA m : KindOf(d, m) = "AbstractKeyword")
      clauses == SelectSeq(node.children,
                   LAMBDA m : KindOf(d, m) = "HeritageClause")
  IN  IF "declare" \in node.flags
      THEN Visited(<<Candidate(node.start, node.end, "typescript")>>, <<>>, {})
      ELSE Visited(<<Candidate(node.start, node.end, "javascript")>>
                     \o [i \in 1..Len(abstract) |->
                           Candidate(d.nodes[abstract[i]].start,
                                     d.nodes[abstract[i]].end, "typescript")]
                     \o typeParameterRegions(d, node.typeParameters)
                     \o heritageRegions(d, clauses),
                   node.children, {})

\* function declarations: declare, else javascript with return type and
\* type parameters typescript
visitFunctionDeclaration(d, n) ==
  LET node == d.nodes[n]
  IN  IF "declare" \in node.flags
      THEN Visited(<<Candidate(node.start, node.end, "typescript")>>, <<>>, {})
      ELSE Visited(<<Candidate(node.start, node.end, "javascript")>>
                     \o typeAnnotationRegions(d, n)
                     \o typeParameterRegions(d, node.typeParameters),
                   node.children, {})

\* new expressions
visitNewExpression(d, n) ==
  LET node == d.nodes[n]
  IN  Visited(<<Candidate(node.start, node.end, "javascript")>>
                \o typeArgumentRegions(d, node.typeArguments),
              node.children, {})

\* standard classification: classifyNode, then forEachChild
visitStandard(d, n) ==
  LET node == d.nodes[n]
      layer == classifyNode(d, n)
  IN  Visited(IF layer # NoLayer
              THEN <<Candidate(node.start, node.end, layer)>>
              ELSE <<>>,
              node.children, {})

\* A mutant of visit: a special case does not return after its candidates,
\* the standard classification and its descent follow.
visit_ThenStandard(d, n, enumNames) ==
  LET none == Visited(<<>>, <<>>, {})
      special ==
        IF KindOf(d, n) = "JsxSelfClosingElement" THEN visitJsxSelfClosingElement(d, n)
        ELSE IF KindOf(d, n) = "JsxExpression" THEN visitJsxExpression(d, n)
        ELSE IF KindOf(d, n) = "JsxAttribute" THEN visitJsxAttribute(d, n)
        ELSE IF IsDirective(d, n) THEN visitDirective(d, n)
        ELSE IF KindOf(d, n) = "VariableStatement" THEN visitVariableStatement(d, n)
        ELSE IF KindOf(d, n) = "InterfaceDeclaration" THEN visitInterfaceDeclaration(d, n)
        ELSE IF KindOf(d, n) = "TypeAliasDeclaration" THEN visitTypeAliasDeclaration(d, n)
        ELSE IF KindOf(d, n) = "EnumDeclaration" THEN visitEnumDeclaration(d, n)
        ELSE IF KindOf(d, n) = "ModuleDeclaration" THEN visitModuleDeclaration(d, n)
        ELSE IF KindOf(d, n) = "ClassDeclaration" THEN visitClassDeclaration(d, n)
        ELSE IF KindOf(d, n) = "VariableDeclaration" /\ d.nodes[n].type # 0
          THEN visitVariableDeclaration(d, n)
        ELSE IF KindOf(d, n) = "Parameter" THEN visitParameter(d, n)
        ELSE IF KindOf(d, n) = "FunctionDeclaration" THEN visitFunctionDeclaration(d, n)
        ELSE IF KindOf(d, n) = "ImportDeclaration" THEN visitImportDeclaration(d, n)
        ELSE IF KindOf(d, n) = "ExportDeclaration" THEN visitExportDeclaration(d, n)
        ELSE IF IsEnumAccess(d, n, enumNames) THEN visitEnumAccess(d, n)
        ELSE IF KindOf(d, n) = "CallExpression" THEN visitCallExpression(d, n)
        ELSE IF KindOf(d, n) = "NewExpression" THEN visitNewExpression(d, n)
        ELSE none
      standard == visitStandard(d, n)
  IN  Visited(special.regions \o standard.regions,
              special.kids \o standard.kids, special.enums)

\* visit(node): the first special case that matches, else the standard
\* classification.  The catalogue holds only the node kinds of these branches
\* and kinds that reach the standard classification.
visit(d, n, enumNames) ==
  IF KindOf(d, n) = "JsxSelfClosingElement" THEN visitJsxSelfClosingElement(d, n)
  ELSE IF KindOf(d, n) = "JsxExpression" THEN visitJsxExpression(d, n)
  ELSE IF KindOf(d, n) = "JsxAttribute" THEN visitJsxAttribute(d, n)
  ELSE IF IsDirective(d, n) THEN visitDirective(d, n)
  ELSE IF KindOf(d, n) = "VariableStatement" THEN visitVariableStatement(d, n)
  ELSE IF KindOf(d, n) = "InterfaceDeclaration" THEN visitInterfaceDeclaration(d, n)
  ELSE IF KindOf(d, n) = "TypeAliasDeclaration" THEN visitTypeAliasDeclaration(d, n)
  ELSE IF KindOf(d, n) = "EnumDeclaration" THEN visitEnumDeclaration(d, n)
  ELSE IF KindOf(d, n) = "ModuleDeclaration" THEN visitModuleDeclaration(d, n)
  ELSE IF KindOf(d, n) = "ClassDeclaration" THEN visitClassDeclaration(d, n)
  ELSE IF KindOf(d, n) = "VariableDeclaration" /\ d.nodes[n].type # 0
    THEN visitVariableDeclaration(d, n)
  ELSE IF KindOf(d, n) = "Parameter" THEN visitParameter(d, n)
  ELSE IF KindOf(d, n) = "FunctionDeclaration" THEN visitFunctionDeclaration(d, n)
  ELSE IF KindOf(d, n) = "ImportDeclaration" THEN visitImportDeclaration(d, n)
  ELSE IF KindOf(d, n) = "ExportDeclaration" THEN visitExportDeclaration(d, n)
  ELSE IF IsEnumAccess(d, n, enumNames) THEN visitEnumAccess(d, n)
  ELSE IF KindOf(d, n) = "CallExpression" THEN visitCallExpression(d, n)
  ELSE IF KindOf(d, n) = "NewExpression" THEN visitNewExpression(d, n)
  ELSE visitStandard(d, n)

\* ------------------------------------------------------------------ comments

LineBreaks == {"\n", "\r"}

WhiteSpace == {" ", "\t"}

RECURSIVE LineEnd(_, _)
\* the end of a // comment: the next line break, or the end of the text
LineEnd(text, pos) ==
  IF pos < Len(text) /\ CharAt(text, pos) \notin LineBreaks
  THEN LineEnd(text, pos + 1)
  ELSE pos

RECURSIVE BlockEnd(_, _)
\* the end of a /* comment: just after the next */, or the end of the text
BlockEnd(text, pos) ==
  IF pos < Len(text)
  THEN IF CharAt(text, pos) = "*" /\ CharAt(text, pos + 1) = "/"
       THEN pos + 2
       ELSE BlockEnd(text, pos + 1)
  ELSE pos

RECURSIVE iterateCommentRanges(_, _, _, _, _)
\* the scanner behind ts.getLeadingCommentRanges and ts.getTrailingCommentRanges:
\* from pos it skips white space and reads comments; a trailing scan stops at
\* the first line break, a leading scan from pos > 0 collects only after one
iterateCommentRanges(text, pos, trailing, collecting, ranges) ==
  IF pos < 0 \/ pos >= Len(text) THEN ranges
  ELSE LET ch == CharAt(text, pos)
       IN  IF ch \in LineBreaks
           THEN IF trailing THEN ranges
                ELSE iterateCommentRanges(
                       text,
                       IF ch = "\r" /\ CharAt(text, pos + 1) = "\n"
                       THEN pos + 2 ELSE pos + 1,
                       trailing, TRUE, ranges)
           ELSE IF ch \in WhiteSpace
           THEN iterateCommentRanges(text, pos + 1, trailing, collecting, ranges)
           ELSE IF ch = "/" /\ CharAt(text, pos + 1) \in {"/", "*"}
           THEN LET end == IF CharAt(text, pos + 1) = "/"
                           THEN LineEnd(text, pos + 2)
                           ELSE BlockEnd(text, pos + 2)
                IN  iterateCommentRanges(
                      text, end, trailing, collecting,
                      IF collecting
                      THEN Append(ranges, Candidate(pos, end, "javascript"))
                      ELSE ranges)
           ELSE ranges

\* ts.getLeadingCommentRanges(sourceText, pos); at pos 0 a #! line is skipped
getLeadingCommentRanges(text, pos) ==
  iterateCommentRanges(
    text,
    IF pos = 0 /\ StartsWith(text, <<"#", "!">>) THEN LineEnd(text, 0) ELSE pos,
    FALSE, pos = 0, <<>>)

\* ts.getTrailingCommentRanges(sourceText, pos)
getTrailingCommentRanges(text, pos) ==
  iterateCommentRanges(text, pos, TRUE, TRUE, <<>>)

\* A mutant of visitForComments: the trailing comments are not read.
visitForComments_LeadingOnly(d, n) ==
  LET node == d.nodes[n]
  IN  IF node.pos < node.start
      THEN getLeadingCommentRanges(d.text, node.pos)
      ELSE <<>>

\* visitForComments(node), without its forEachChild
visitForComments(d, n) ==
  LET node == d.nodes[n]
  IN  (IF node.pos < node.start
       THEN getLeadingCommentRanges(d.text, node.pos)
       ELSE <<>>)
      \o getTrailingCommentRanges(d.text, node.end)

RECURSIVE collectCommentsFrom(_, _, _)
\* visitForComments over every node from n on, in pre-order
collectCommentsFrom(d, n, rawRegions) ==
  IF n > Len(d.nodes) THEN rawRegions
  ELSE collectCommentsFrom(d, n + 1, addRegions(rawRegions, visitForComments(d, n)))

\* collectComments(sourceFile, sourceText, addRegion)
collectComments(d, rawRegions) == collectCommentsFrom(d, 1, rawRegions)

\* ------------------------------------------------------------ resolveOverlaps

\* new Array(textLength).fill(null) and new Array(textLength).fill(0)
EmptyMaps(textLength) ==
  [positionMap |-> [i \in 0..(textLength - 1) |-> NoLayer],
   priorityMap |-> [i \in 0..(textLength - 1) |-> 0]]

\* the inner loop of resolveOverlaps for one region: every offset of the
\* region inside the text takes the region's layer when its priority is
\* strictly greater than the one recorded
ApplyRegion(maps, region, textLength) ==
  LET hit(i) == /\ region.start <= i
                /\ i < region.end
                /\ region.priority > maps.priorityMap[i]
  IN  [positionMap |-> [i \in 0..(textLength - 1) |->
                          IF hit(i) THEN region.layer ELSE maps.positionMap[i]],
       priorityMap |-> [i \in 0..(textLength - 1) |->
                          IF hit(i) THEN region.priority ELSE maps.priorityMap[i]]]

RECURSIVE ApplyRegions(_, _, _)
\* the outer loop of resolveOverlaps: for (const region of rawRegions)
ApplyRegions(maps, rawRegions, textLength) ==
  IF rawRegions = <<>> THEN maps
  ELSE ApplyRegions(ApplyRegion(maps, Head(rawRegions), textLength),
                    Tail(rawRegions), textLength)

\* A mutant of PushRun: the end of a run is taken one offset too far.
PushRun_EndInclusive(result, currentStart, end, currentLayer) ==
  IF currentLayer # NoLayer
  THEN Append(result, [start |-> currentStart, end |-> end + 1, layer |-> currentLayer])
  ELSE result

\* result.push({start, end, layer}) when a run is open
PushRun(result, currentStart, end, currentLayer) ==
  IF currentLayer # NoLayer
  THEN Append(result, [start |-> currentStart, end |-> end, layer |-> currentLayer])
  ELSE result

RECURSIVE MergeRuns_PerOffset(_, _, _, _, _)
\* A mutant of MergeRuns: every offset with a layer is a region of its own.
MergeRuns_PerOffset(positionMap, textLength, i, currentLayer, currentStart) ==
  IF i >= textLength THEN <<>>
  ELSE PushRun(<<>>, i, i + 1, positionMap[i])
         \o MergeRuns_PerOffset(positionMap, textLength, i + 1, currentLayer, currentStart)

RECURSIVE MergeRuns_Overlapping(_, _, _, _, _)
\* A mutant of MergeRuns: a run is closed one offset late.
MergeRuns_Overlapping(positionMap, textLength, i, currentLayer, currentStart) ==
  IF i >= textLength
  THEN PushRun(<<>>, currentStart, textLength, currentLayer)
  ELSE LET layer == positionMap[i]
       IN  IF layer # currentLayer
           THEN PushRun(<<>>, currentStart, i + 1, currentLayer)
                  \o MergeRuns_Overlapping(positionMap, textLength, i + 1, layer, i)
           ELSE MergeRuns_Overlapping(positionMap, textLength, i + 1,
                                      currentLayer, currentStart)

RECURSIVE MergeRuns_NoFinalPush(_, _, _, _, _)
\* A mutant of MergeRuns: the run open at the end of the text is not pushed.
MergeRuns_NoFinalPush(positionMap, textLength, i, currentLayer, currentStart) ==
  IF i >= textLength THEN <<>>
  ELSE LET layer == positionMap[i]
       IN  IF layer # currentLayer
           THEN PushRun(<<>>, currentStart, i, currentLayer)
                  \o MergeRuns_NoFinalPush(positionMap, textLength, i + 1, layer, i)
           ELSE MergeRuns_NoFinalPush(positionMap, textLength, i + 1,
                                       currentLayer, currentStart)

RECURSIVE MergeRuns_NextLayer(_, _, _, _, _)
\* A mutant of MergeRuns: a run is pushed with the layer that ends it.
MergeRuns_NextLayer(positionMap, textLength, i, currentLayer, currentStart) ==
  IF i >= textLength
  THEN PushRun(<<>>, currentStart, textLength, currentLayer)
  ELSE LET layer == positionMap[i]
       IN  IF layer # currentLayer
           THEN PushRun(<<>>, currentStart, i, IF i = 0 THEN NoLayer ELSE layer)
                  \o MergeRuns_NextLayer(positionMap, textLength, i + 1, layer, i)
           ELSE MergeRuns_NextLayer(positionMap, textLength, i + 1,
                                    currentLayer, currentStart)

RECURSIVE MergeRuns(_, _, _, _, _)
\* the left-to-right pass of resolveOverlaps from offset i on: a region is
\* pushed where the layer changes, and at the end of the text
MergeRuns(positionMap, textLength, i, currentLayer, currentStart) ==
  IF i >= textLength
  THEN PushRun(<<>>, currentStart, textLength, currentLayer)
  ELSE LET layer == positionMap[i]
       IN  IF layer # currentLayer
           THEN PushRun(<<>>, currentStart, i, currentLayer)
                  \o MergeRuns(positionMap, textLength, i + 1, layer, i)
           ELSE MergeRuns(positionMap, textLength, i + 1, currentLayer, currentStart)

\* A mutant of resolveOverlaps: with nothing to resolve the whole text is
\* returned as one javascript region.
resolveOverlaps_FallbackRegion(rawRegions, textLength) ==
  IF Len(rawRegions) = 0 \/ textLength = 0
  THEN <<[start |-> 0, end |-> textLength, layer |-> "javascript"]>>
  ELSE MergeRuns(ApplyRegions(EmptyMaps(textLength), rawRegions, textLength).positionMap,
                 textLength, 0, NoLayer, 0)

\* resolveOverlaps(rawRegions, textLength)
resolveOverlaps(rawRegions, textLength) ==
  IF Len(rawRegions) = 0 \/ textLength = 0
  THEN <<>>
  ELSE MergeRuns(ApplyRegions(EmptyMaps(textLength), rawRegions, textLength).positionMap,
                 textLength, 0, NoLayer, 0)

\* --------------------------------------------------------------------- state

\* Most classifyDocument calls of one behaviour.
MaxCalls == 3

VARIABLES
  pc,          \* where the running call is: "idle", "visit", "resolve",
               \* "returned"; "free" while SpecResolve collects candidates
  doc,         \* the document of the running call (its index in Docs), or 0
  stack,       \* the nodes visit has still to be called on, next first
  visited,     \* the nodes visit was called on in this call, in order
  rawRegions,  \* const rawRegions: RawRegion[] of the running call
  enumNames,   \* const enumNames = new Set<string>() of the running call
  textLength,  \* sourceText.length
  result,      \* what the last call returned
  returned,    \* per document, the results its calls returned so far, in order
  calls,       \* the number of calls started
  sourceText,  \* the text a bracket helper was called on
  bracketPos,  \* its position argument: beforePos or openBracketPos
  helper,      \* the bracket helper that was called, or "none"
  found,       \* what the bracket helper returned
  isActive,        \* let isActive of extension.ts
  contextKey,      \* the context key whyReactCodeLooksLikeThatActive
  onTurnOff,       \* the legend provider has its _onTurnOff callback
  timeout,         \* let timeout: the handle of the last timer set, 0 while undefined
  pending,         \* the timers set and neither cleared nor expired
  activeEditor,    \* vscode.window.activeTextEditor, 0 while there is none
  visibleEditors,  \* vscode.window.visibleTextEditors
  decorated,       \* the editors applyDecorations decorated, not cleared since
  event,           \* the event whose handler ran last
  effects          \* the calls that handler made, in order

\* the state of a classifyDocument call
classifierVars ==
  <<pc, doc, stack, visited, rawRegions, enumNames, textLength, result,
    returned, calls>>

\* the state of a bracket helper call
bracketVars == <<sourceText, bracketPos, helper, found>>

\* the state of the extension
extensionVars ==
  <<isActive, contextKey, onTurnOff, timeout, pending, activeEditor,
    visibleEditors, decorated, event, effects>>

vars == <<classifierVars, bracketVars, extensionVars>>

\* no bracket helper is called on its own
NoBracketCall ==
  /\ sourceText = <<>>
  /\ bracketPos = 0
  /\ helper = "none"
  /\ found = 0

\* the extension is not activated
NoExtension ==
  /\ isActive = FALSE
  /\ contextKey = FALSE
  /\ onTurnOff = FALSE
  /\ timeout = 0
  /\ pending = {}
  /\ activeEditor = 0
  /\ visibleEditors = {}
  /\ decorated = {}
  /\ event = "none"
  /\ effects = <<>>

\* A mutant of FreshRawRegions: the candidate list is a module-level array.
FreshRawRegions_Kept == rawRegions

\* const rawRegions: RawRegion[] = [], allocated in classifyDocument
FreshRawRegions == <<>>

\* A mutant of FreshEnumNames: the set is a module-level singleton.
FreshEnumNames_Shared == enumNames

\* const enumNames = new Set<string>(), allocated in classifyDocument
FreshEnumNames == {}

Init ==
  /\ pc = "idle"
  /\ doc = 0
  /\ stack = <<>>
  /\ visited = <<>>
  /\ rawRegions = <<>>
  /\ enumNames = {}
  /\ textLength = 0
  /\ result = <<>>
  /\ returned = [d \in DocIds |-> <<>>]
  /\ calls = 0
  /\ NoBracketCall
  /\ NoExtension

\* classifyDocument(sourceText) up to its call of visit(sourceFile)
ClassifyDocument(d) ==
  /\ pc \in {"idle", "returned"}
  /\ calls < MaxCalls
  /\ pc' = "visit"
  /\ doc' = d
  /\ stack' = <<1>>
  /\ visited' = <<>>
  /\ rawRegions' = FreshRawRegions
  /\ enumNames' = FreshEnumNames
  /\ textLength' = Len(Docs[d].text)
  /\ calls' = calls + 1
  /\ UNCHANGED <<result, returned>>
  /\ UNCHANGED bracketVars
  /\ UNCHANGED extensionVars

\* one invocation of visit(node): its addRegion calls, then the children it
\* re-enters are next, before the siblings still waiting
Visit ==
  /\ pc = "visit"
  /\ stack # <<>>
  /\ LET n == Head(stack)
         v == visit(Docs[doc], n, enumNames)
     IN  /\ rawRegions' = addRegions(rawRegions, v.regions)
         /\ enumNames' = enumNames \cup v.enums
         /\ stack' = v.kids \o Tail(stack)
         /\ visited' = Append(visited, n)
  /\ UNCHANGED <<pc, doc, textLength, result, returned, calls>>
  /\ UNCHANGED bracketVars
  /\ UNCHANGED extensionVars

\* visit(sourceFile) has returned: collectComments(sourceFile, sourceText, addRegion)
CollectComments ==
  /\ pc = "visit"
  /\ stack = <<>>
  /\ rawRegions' = collectComments(Docs[doc], rawRegions)
  /\ pc' = "resolve"
  /\ UNCHANGED <<doc, stack, visited, enumNames, textLength, result, returned, calls>>
  /\ UNCHANGED bracketVars
  /\ UNCHANGED extensionVars

\* return resolveOverlaps(rawRegions, sourceText.length)
ResolveOverlaps ==
  /\ pc = "resolve"
  /\ result' = resolveOverlaps(rawRegions, textLength)
  /\ returned' = IF doc \in DocIds
                 THEN [returned EXCEPT ![doc] = Append(@, result')]
                 ELSE returned
  /\ pc' = "returned"
  /\ UNCHANGED <<doc, stack, visited, rawRegions, enumNames, textLength, calls>>
  /\ UNCHANGED bracketVars
  /\ UNCHANGED extensionVars

Next ==
  \/ \E d \in SessionIds : ClassifyDocument(d)
  \/ Visit
  \/ CollectComments
  \/ ResolveOverlaps

\* classifyDocument called on the documents of SessionDocs, one call after
\* another, up to MaxCalls calls
Spec == Init /\ [][Next]_vars

\* ------------------------------------------- one call per document (SpecWalk)

\* the first classifyDocument call, on any document of the catalogue
FirstCall(d) == calls = 0 /\ ClassifyDocument(d)

NextWalk ==
  \/ \E d \in DocIds : FirstCall(d)
  \/ Visit
  \/ CollectComments
  \/ ResolveOverlaps

\* classifyDocument called once, on each document of the catalogue
SpecWalk == Init /\ [][NextWalk]_vars

\* ------------------------------------- resolveOverlaps on its own (SpecResolve)

\* the offsets a candidate of SpecResolve may start or end at: one past the text
Offsets == 0..(MaxLen + 1)

InitResolve ==
  /\ pc = "free"
  /\ doc = 0
  /\ stack = <<>>
  /\ visited = <<>>
  /\ rawRegions = <<>>
  /\ enumNames = {}
  /\ textLength \in 0..MaxLen
  /\ result = <<>>
  /\ returned = [d \in DocIds |-> <<>>]
  /\ calls = 0
  /\ NoBracketCall
  /\ NoExtension

\* one addRegion(start, end, layer) call with arguments of any kind
AddRegion(start, end, layer) ==
  /\ pc = "free"
  /\ Len(rawRegions) < MaxRegions
  /\ rawRegions' = addRegion(rawRegions, start, end, layer)
  /\ UNCHANGED <<pc, doc, stack, visited, enumNames, textLength, result, returned, calls>>
  /\ UNCHANGED bracketVars
  /\ UNCHANGED extensionVars

\* the candidates are complete
Collected ==
  /\ pc = "free"
  /\ pc' = "resolve"
  /\ UNCHANGED <<doc, stack, visited, rawRegions, enumNames, textLength, result, returned, calls>>
  /\ UNCHANGED bracketVars
  /\ UNCHANGED extensionVars

NextResolve ==
  \/ \E start \in Offsets, end \in Offsets, layer \in Layers :
       AddRegion(start, end, layer)
  \/ Collected
  \/ ResolveOverlaps

\* resolveOverlaps applied to every list of at most MaxRegions candidates that
\* addRegion can build, at every text length up to MaxLen
SpecResolve == InitResolve /\ [][NextResolve]_vars

\* ----------------------------------------------------- both together (SpecAll)

InitAll == Init \/ InitResolve

NextAll == Next \/ NextResolve

\* the calls of Spec and the candidate lists of SpecResolve
SpecAll == InitAll /\ [][NextAll]_vars

\* --------------------------------------- the bracket helpers (SpecBrackets)

\* Longest text a bracket helper is called on.
MaxText == 4

\* the characters of those texts: the two brackets and one other
BracketChars == {"<", ">", "a"}

\* the texts a bracket helper is called on
Texts == UNION {[1..n -> BracketChars] : n \in 0..MaxText}

\* the position arguments: from before the text to past its end
Positions == -2..(MaxText + 1)

InitBrackets ==
  /\ pc = "idle"
  /\ doc = 0
  /\ stack = <<>>
  /\ visited = <<>>
  /\ rawRegions = <<>>
  /\ enumNames = {}
  /\ textLength = 0
  /\ result = <<>>
  /\ returned = [d \in DocIds |-> <<>>]
  /\ calls = 0
  /\ sourceText \in Texts
  /\ bracketPos \in Positions
  /\ helper = "none"
  /\ found = 0
  /\ NoExtension

\* findOpeningBracket(sourceText, beforePos)
FindOpeningBracket ==
  /\ helper = "none"
  /\ helper' = "findOpeningBracket"
  /\ found' = findOpeningBracket(sourceText, bracketPos)
  /\ UNCHANGED <<sourceText, bracketPos>>
  /\ UNCHANGED classifierVars
  /\ UNCHANGED extensionVars

\* findMatchingCloseBracket(sourceText, openBracketPos)
FindMatchingCloseBracket ==
  /\ helper = "none"
  /\ helper' = "findMatchingCloseBracket"
  /\ found' = findMatchingCloseBracket(sourceText, bracketPos)
  /\ UNCHANGED <<sourceText, bracketPos>>
  /\ UNCHANGED classifierVars
  /\ UNCHANGED extensionVars

NextBrackets ==
  \/ FindOpeningBracket
  \/ FindMatchingCloseBracket

\* each bracket helper applied to every text of at most MaxText characters
\* at every position
SpecBrackets == InitBrackets /\ [][NextBrackets]_vars


\* --------------------------------------------- the extension (SpecExtension)

\* Most timer handles that are told apart.
MaxTimers == 3

\* the handles setTimeout returns
TimerIds == 1..MaxTimers

\* the text editors of the window
Editors == {1, 2, 3, 4}

\* the documents: the one each editor shows, and one that no editor shows
Documents == Editors \cup {5}

\* editor.document.fileName
FileName(editor) ==
  CASE editor = 1 -> <<"a", ".", "t", "s", "x">>
    [] editor = 2 -> <<"b", ".", "j", "s", "x">>
    [] editor = 3 -> <<"c", ".", "t", "s">>
    [] editor = 4 -> <<"d", "t", "s", "x">>

\* the text ends with the suffix
EndsWith(text, suffix) ==
  /\ Len(text) >= Len(suffix)
  /\ SubSeq(text, Len(text) - Len(suffix) + 1, Len(text)) = suffix

\* A mutant of MatchesTsxOrJsx: the dot is not asked for.
MatchesTsxOrJsx_NoDot(fileName) ==
  \/ EndsWith(fileName, <<"t", "s", "x">>)
  \/ EndsWith(fileName, <<"j", "s", "x">>)

\* fileName.match(/\.(tsx|jsx)$/)
MatchesTsxOrJsx(fileName) ==
  \/ EndsWith(fileName, <<".", "t", "s", "x">>)
  \/ EndsWith(fileName, <<".", "j", "s", "x">>)

\* updateDecorations() with the given active editor: the editors decorated
\* after it and the calls it makes
updateDecorations(editor, decorations) ==
  IF editor = 0
  THEN [decorated |-> decorations, effects |-> <<"updateDecorations">>]
  ELSE IF ~MatchesTsxOrJsx(FileName(editor))
  THEN [decorated |-> decorations, effects |-> <<"updateDecorations">>]
  ELSE [decorated |-> decorations \cup {editor},
        effects |-> <<"updateDecorations", "classifyDocument", "applyDecorations">>]

\* clearAllDecorations(decorationTypes): setDecorations(type, []) on every
\* visible editor
clearAllDecorations(decorations, visible) == decorations \ visible

\* A mutant of turnOffHighlighting: the context key is left as it is.
turnOffHighlighting_KeepsKey ==
  /\ isActive' = FALSE
  /\ decorated' = clearAllDecorations(decorated, visibleEditors)
  /\ contextKey' = contextKey
  /\ effects' = <<"clearAllDecorations">>

\* const turnOffHighlighting
turnOffHighlighting ==
  /\ isActive' = FALSE
  /\ decorated' = clearAllDecorations(decorated, visibleEditors)
  /\ contextKey' = FALSE
  /\ effects' = <<"clearAllDecorations", "setContext">>

\* A mutant of clearTimeout: the timer stays pending.
clearTimeout_Keeps(timers, id) == timers

\* clearTimeout(timeout)
clearTimeout(timers, id) == timers \ {id}

\* the handles setTimeout may return: not one of a pending timer, and not
\* the one still held in timeout
FreeTimerIds == TimerIds \ (pending \cup {timeout})

\* the state after activate(context)
InitExtension ==
  /\ pc = "idle"
  /\ doc = 0
  /\ stack = <<>>
  /\ visited = <<>>
  /\ rawRegions = <<>>
  /\ enumNames = {}
  /\ textLength = 0
  /\ result = <<>>
  /\ returned = [d \in DocIds |-> <<>>]
  /\ calls = 0
  /\ NoBracketCall
  /\ isActive = FALSE
  /\ contextKey = FALSE
  /\ onTurnOff = FALSE
  /\ timeout = 0
  /\ pending = {}
  /\ visibleEditors \in SUBSET Editors
  /\ activeEditor \in visibleEditors \cup {0}
  /\ decorated = {}
  /\ event = "activate"
  /\ effects = <<>>

\* the command why-react-code-looks-like-that.toggle
Toggle ==
  /\ event' = "toggle"
  /\ LET flipped == ~isActive
     IN  IF flipped
         THEN LET updated == updateDecorations(activeEditor, decorated)
              IN  /\ isActive' = flipped
                  /\ decorated' = updated.decorated
                  /\ contextKey' = TRUE
                  /\ onTurnOff' = TRUE
                  /\ effects' = updated.effects \o <<"setContext", "showLegend">>
         ELSE /\ turnOffHighlighting
              /\ UNCHANGED onTurnOff
  /\ UNCHANGED <<timeout, pending, activeEditor, visibleEditors>>
  /\ UNCHANGED classifierVars
  /\ UNCHANGED bracketVars

\* the legend posts the message turnOff
TurnOff ==
  /\ event' = "turnOff"
  /\ IF onTurnOff
     THEN turnOffHighlighting
     ELSE /\ effects' = <<>>
          /\ UNCHANGED <<isActive, decorated, contextKey>>
  /\ UNCHANGED <<onTurnOff, timeout, pending, activeEditor, visibleEditors>>
  /\ UNCHANGED classifierVars
  /\ UNCHANGED bracketVars

\* onDidChangeActiveTextEditor(editor)
ChangeActiveEditor(editor) ==
  /\ editor \in visibleEditors \cup {0}
  /\ editor # activeEditor
  /\ event' = "editorChange"
  /\ activeEditor' = editor
  /\ IF isActive /\ editor # 0
     THEN LET updated == updateDecorations(editor, decorated)
          IN  /\ decorated' = updated.decorated
              /\ effects' = updated.effects
     ELSE /\ effects' = <<>>
          /\ UNCHANGED decorated
  /\ UNCHANGED <<isActive, contextKey, onTurnOff, timeout, pending, visibleEditors>>
  /\ UNCHANGED classifierVars
  /\ UNCHANGED bracketVars

\* onDidChangeTextDocument(event) with event.document = document
ChangeDocument(document) ==
  /\ event' = "docChange"
  /\ IF isActive /\ activeEditor # 0 /\ document = activeEditor
     THEN \E id \in FreeTimerIds :
            /\ timeout' = id
            /\ pending' = (IF timeout # 0 THEN clearTimeout(pending, timeout)
                                          ELSE pending) \cup {id}
            /\ effects' = (IF timeout # 0 THEN <<"clearTimeout">> ELSE <<>>)
                            \o <<"setTimeout">>
     ELSE /\ effects' = <<>>
          /\ UNCHANGED <<timeout, pending>>
  /\ UNCHANGED <<isActive, contextKey, onTurnOff, activeEditor, visibleEditors, decorated>>
  /\ UNCHANGED classifierVars
  /\ UNCHANGED bracketVars

\* onDidChangeConfiguration(event); affectsColors is
\* event.affectsConfiguration("whyReactCodeLooksLikeThat.colors")
ChangeConfiguration(affectsColors) ==
  /\ event' = "configChange"
  /\ IF affectsColors
     THEN LET disposed == {}
              updated == IF isActive
                         THEN updateDecorations(activeEditor, disposed)
                         ELSE [decorated |-> disposed, effects |-> <<>>]
          IN  /\ decorated' = updated.decorated
              /\ effects' = <<"disposeDecorationTypes", "createDecorationTypes">>
                              \o updated.effects
     ELSE /\ effects' = <<>>
          /\ UNCHANGED decorated
  /\ UNCHANGED <<isActive, contextKey, onTurnOff, timeout, pending, activeEditor,
                 visibleEditors>>
  /\ UNCHANGED classifierVars
  /\ UNCHANGED bracketVars

\* the timer id expires: setTimeout's callback updateDecorations runs
TimerFires(id) ==
  /\ id \in pending
  /\ event' = "timer"
  /\ pending' = pending \ {id}
  /\ LET updated == updateDecorations(activeEditor, decorated)
     IN  /\ decorated' = updated.decorated
         /\ effects' = updated.effects
  /\ UNCHANGED <<isActive, contextKey, onTurnOff, timeout, activeEditor, visibleEditors>>
  /\ UNCHANGED classifierVars
  /\ UNCHANGED bracketVars

NextExtension ==
  \/ Toggle
  \/ TurnOff
  \/ \E editor \in Editors \cup {0} : ChangeActiveEditor(editor)
  \/ \E document \in Documents : ChangeDocument(document)
  \/ \E affectsColors \in BOOLEAN : ChangeConfiguration(affectsColors)
  \/ \E id \in TimerIds : TimerFires(id)

\* the events of the editor in any order
SpecExtension == InitExtension /\ [][NextExtension]_vars

\* a timer that stays pending expires
TimersExpire == \A id \in TimerIds : WF_vars(TimerFires(id))

\* the events of the editor in any order, every pending timer expiring
SpecExtensionFair == SpecExtension /\ TimersExpire

\* ------------------------------------------------------------------- queries

\* the call has returned: result is resolveOverlaps(rawRegions, textLength)
Returned == pc = "returned"

\* a call on a document of the catalogue is running or has returned
InCall == doc \in DocIds /\ pc \in {"visit", "resolve", "returned"}

\* the catalogue index of a document
IndexOf(d) == CHOOSE i \in DocIds : Docs[i] = d

\* getLayerAt(regions, position): the layer of the first region that holds
\* the position, or null
getLayerAt(regions, position) ==
  LET holding == {i \in 1..Len(regions) :
                    regions[i].start <= position /\ regions[i].end > position}
  IN  IF holding = {} THEN NoLayer
      ELSE regions[CHOOSE i \in holding : \A j \in holding : i <= j].layer

\* the candidates of rawRegions that cover offset p
Covering(p) ==
  {k \in 1..Len(rawRegions) : rawRegions[k].start <= p /\ p < rawRegions[k].end}

\* the offsets of the text
TextOffsets == 0..(textLength - 1)

\* the order of the layers as the specification gives it, lowest first
ClaimedOrder == <<"javascript", "jsx", "typescript", "react">>

\* layer a ranks strictly above layer b in that order
Outranks(a, b) ==
  \E i, j \in 1..Len(ClaimedOrder) :
    ClaimedOrder[i] = a /\ ClaimedOrder[j] = b /\ i > j

\* the offsets of node n of document d
SpanOf(d, n) == (d.nodes[n].start)..(d.nodes[n].end - 1)

\* the elements of a sequence
Range(s) == {s[i] : i \in 1..Len(s)}

\* ---------------------------------------------------------------- properties

\* C1: the sequence a call returns is ordered by start and non-overlapping:
\* each region ends at or before the start of the next one.
C1_OrderedNonOverlapping ==
  Returned =>
    \A i \in 1..(Len(result) - 1) :
      /\ result[i].start < result[i + 1].start
      /\ result[i].end <= result[i + 1].start

\* C1's case: candidates of different layers overlapped and the call returned
\* more than one region.
C1_Witness ==
  /\ Returned
  /\ Len(result) >= 2
  /\ \E p \in TextOffsets : \E j, k \in Covering(p) :
       rawRegions[j].layer # rawRegions[k].layer

\* C2 as stated: no two consecutive regions of the sequence a call on a text
\* returns share a layer.
C2_NoSameLayerNeighbours ==
  (Returned /\ doc \in DocIds) =>
    \A i \in 1..(Len(result) - 1) : result[i].layer # result[i + 1].layer

\* C2 as amended: two consecutive regions that touch (the first ends where the
\* second starts) have different layers; a gap may separate two regions of
\* the same layer.
C2_TouchingNeighboursDiffer ==
  Returned =>
    \A i \in 1..(Len(result) - 1) :
      result[i].end = result[i + 1].start => result[i].layer # result[i + 1].layer

\* C2's case: two candidates of one layer touch inside the text and come out
\* as one region.
C2_Witness ==
  /\ Returned
  /\ \E j, k \in 1..Len(rawRegions) :
       /\ rawRegions[j].layer = rawRegions[k].layer
       /\ rawRegions[j].end = rawRegions[k].start
       /\ rawRegions[k].end <= textLength
       /\ \E i \in 1..Len(result) :
            /\ result[i].start <= rawRegions[j].start
            /\ rawRegions[k].end <= result[i].end

\* C3: at every offset of the text that a candidate covers, the returned layer
\* is the layer of a covering candidate that no covering candidate outranks
\* in the order react > typescript > jsx > javascript; the priorities of the
\* candidates follow that order, so candidates of equal priority have the same
\* layer and a tie changes nothing.
C3_HighestPriorityWins ==
  Returned =>
    /\ \A j, k \in 1..Len(rawRegions) :
         rawRegions[j].priority > rawRegions[k].priority
           <=> Outranks(rawRegions[j].layer, rawRegions[k].layer)
    /\ \A p \in TextOffsets :
         Covering(p) # {} =>
           \E k \in Covering(p) :
             /\ getLayerAt(result, p) = rawRegions[k].layer
             /\ \A j \in Covering(p) :
                  ~Outranks(rawRegions[j].layer, rawRegions[k].layer)

\* C3's case: a later candidate of higher priority replaced the layer an
\* earlier candidate had recorded at an offset.
C3_Witness ==
  /\ Returned
  /\ \E p \in TextOffsets : \E j, k \in Covering(p) :
       /\ j < k
       /\ Outranks(rawRegions[k].layer, rawRegions[j].layer)
       /\ getLayerAt(result, p) = rawRegions[k].layer

\* C4: every returned region satisfies 0 <= start < end <= textLength, also
\* when a candidate extends past the end of the text.
C4_RegionsInsideText ==
  Returned =>
    \A i \in 1..Len(result) :
      /\ 0 <= result[i].start
      /\ result[i].start < result[i].end
      /\ result[i].end <= textLength

\* C4's case: a candidate ends after the text and the region it gives ends
\* with the text.
C4_Witness ==
  /\ Returned
  /\ \E k \in 1..Len(rawRegions) : rawRegions[k].end > textLength
  /\ result # <<>>
  /\ result[Len(result)].end = textLength

\* C5: an offset of the text lies inside a returned region if and only if a
\* candidate covers it.
C5_CoveredIffCandidate ==
  Returned =>
    \A p \in TextOffsets :
      (\E i \in 1..Len(result) : result[i].start <= p /\ p < result[i].end)
        <=> Covering(p) # {}

\* C5's case: the text has a covered offset and a gap.
C5_Witness ==
  /\ Returned
  /\ \E p, q \in TextOffsets :
       /\ Covering(p) # {}
       /\ Covering(q) = {}
       /\ getLayerAt(result, p) # NoLayer
       /\ getLayerAt(result, q) = NoLayer

\* the text holds white space only
IsBlank(text) == \A i \in 1..Len(text) : text[i] \in WhiteSpace \cup LineBreaks

\* C6: a call on the empty string or on a text of white space only returns the
\* empty sequence, and so does resolveOverlaps whenever the candidate list is
\* empty or the text length is 0.
C6_EmptyInputEmptyOutput ==
  Returned =>
    /\ (doc \in DocIds /\ IsBlank(Docs[doc].text)) => result = <<>>
    /\ (Len(rawRegions) = 0 \/ textLength = 0) => result = <<>>

\* C6's case: a call on a text of white space only has returned.
C6_Witness ==
  /\ Returned
  /\ doc \in DocIds
  /\ Docs[doc].text # <<>>
  /\ IsBlank(Docs[doc].text)
  /\ result = <<>>

\* C7: every call on one text returns the same sequence, whatever calls on
\* other texts come before or between.
C7_SameTextSameOutput ==
  \A d \in DocIds :
    \A i, j \in 1..Len(returned[d]) : returned[d][i] = returned[d][j]

\* C7's case: the text "E.A" was classified twice, the second time after a
\* call on a text that declares enum E.
C7_Witness ==
  /\ Returned
  /\ doc = IndexOf(DocAccess)
  /\ Len(returned[IndexOf(DocAccess)]) = 2
  /\ Len(returned[IndexOf(DocEnumAccess)]) = 1
  /\ returned[IndexOf(DocAccess)][1] # <<>>

\* the names of the enum declarations of a document
DeclaredEnums(d) ==
  {getText(d, d.nodes[n].name) :
     n \in {m \in 1..Len(d.nodes) :
              d.nodes[m].kind = "EnumDeclaration" /\ d.nodes[m].name # 0}}

\* node n is a property access whose base is an identifier
IsAccessOnIdentifier(d, n) ==
  /\ KindOf(d, n) = "PropertyAccessExpression"
  /\ IsIdentifier(d, d.nodes[n].expression)

\* the candidate addRegion pushes for the whole span of node n
WholeSpan(d, n, layer) ==
  [start |-> d.nodes[n].start, end |-> d.nodes[n].end, layer |-> layer,
   priority |-> PRIORITY(layer)]

\* C8: the tracked enum names of a call are names of enums its own document
\* declares, so a property access on a name the document does not declare as
\* an enum gets no typescript candidate and is not typescript in the output,
\* whatever documents were classified before.
C8_EnumNamesPerCall ==
  InCall =>
    /\ enumNames \subseteq DeclaredEnums(Docs[doc])
    /\ \A k \in 1..Len(visited) :
         LET d == Docs[doc]
             n == visited[k]
         IN  (/\ IsAccessOnIdentifier(d, n)
              /\ getText(d, d.nodes[n].expression) \notin DeclaredEnums(d))
               => /\ WholeSpan(d, n, "typescript") \notin Range(rawRegions)
                  /\ Returned =>
                       \A p \in SpanOf(d, n) : getLayerAt(result, p) # "typescript"

\* C8's case: "E.A" was classified after a document that declares enum E and
\* its access came out javascript.
C8_Witness ==
  /\ Returned
  /\ doc = IndexOf(DocAccess)
  /\ returned[IndexOf(DocEnumAccess)] # <<>>
  /\ \E k \in 1..Len(visited) : IsAccessOnIdentifier(Docs[doc], visited[k])
  /\ getLayerAt(result, 0) = "javascript"

\* C9: a property access on an identifier N that visit is called on gets the
\* whole-span typescript candidate and no descent if and only if visit was
\* called on an enum declaration named N earlier in the same walk; otherwise
\* it gets the javascript candidate of the standard classification and its
\* children are visited.
C9_EnumAccessAfterDeclaration ==
  InCall =>
    \A k \in 1..Len(visited) :
      LET d == Docs[doc]
          n == visited[k]
      IN  IsAccessOnIdentifier(d, n) =>
            LET base == getText(d, d.nodes[n].expression)
                declaredEarlier ==
                  \E j \in 1..(k - 1) :
                    /\ KindOf(d, visited[j]) = "EnumDeclaration"
                    /\ d.nodes[visited[j]].name # 0
                    /\ getText(d, d.nodes[visited[j]].name) = base
                entered == Range(visited) \cup Range(stack)
            IN  IF declaredEarlier
                THEN /\ WholeSpan(d, n, "typescript") \in Range(rawRegions)
                     /\ Range(d.nodes[n].children) \cap entered = {}
                ELSE /\ WholeSpan(d, n, "typescript") \notin Range(rawRegions)
                     /\ WholeSpan(d, n, "javascript") \in Range(rawRegions)
                     /\ Range(d.nodes[n].children) \subseteq entered

\* C9's case: in "E.A;enum E{A}" the access is visited before the declaration
\* and came out javascript, and in "enum E{A} E.A" the access came out
\* typescript.
C9_Witness ==
  /\ Returned
  /\ doc = IndexOf(DocAccessEnum)
  /\ \E j, k \in 1..Len(visited) :
       /\ j < k
       /\ IsAccessOnIdentifier(Docs[doc], visited[j])
       /\ KindOf(Docs[doc], visited[k]) = "EnumDeclaration"
  /\ getLayerAt(result, 0) = "javascript"
  /\ returned[IndexOf(DocEnumAccess)] # <<>>
  /\ getLayerAt(returned[IndexOf(DocEnumAccess)][1], 10) = "typescript"

\* node n is a call whose callee text is a member of REACT_HOOKS
IsHookCall(d, n) ==
  /\ KindOf(d, n) = "CallExpression"
  /\ getText(d, d.nodes[n].expression) \in REACT_HOOKS

\* the offsets of the arguments of call n
ArgumentOffsets(d, n) ==
  UNION {SpanOf(d, d.nodes[n].arguments[i]) : i \in 1..Len(d.nodes[n].arguments)}

IsCustomCall(d, n) ==
  /\ KindOf(d, n) = "CallExpression"
  /\ IsIdentifier(d, d.nodes[n].expression)
  /\ getText(d, d.nodes[n].expression) \notin REACT_HOOKS \cup REACT_UTILS

\* no react candidate has the span of node n
NoReactCandidate(d, n) == WholeSpan(d, n, "react") \notin Range(rawRegions)

\* every offset of node n has the given layer in the result
AllOf(d, n, layer) == \A p \in SpanOf(d, n) : getLayerAt(result, p) = layer

\* C11 as stated: the callee of a call on a bare identifier outside the hook
\* and utility sets gets no react candidate and is javascript in the output.
C11_CustomCalleeIsJavascript ==
  (Returned /\ doc \in DocIds) =>
    \A k \in 1..Len(visited) :
      LET d == Docs[doc]
          n == visited[k]
      IN  IsCustomCall(d, n) =>
            /\ NoReactCandidate(d, d.nodes[n].expression)
            /\ AllOf(d, d.nodes[n].expression, "javascript")

\* C11 as amended: the call branch emits no react candidate for such a callee;
\* the callee is visited as an identifier and is javascript in the output,
\* unless the identifier is React, which the identifier rule makes react.
C11_CustomCallee ==
  (Returned /\ doc \in DocIds) =>
    \A k \in 1..Len(visited) :
      LET d == Docs[doc]
          n == visited[k]
          callee == d.nodes[n].expression
      IN  IsCustomCall(d, n) =>
            /\ callee \in Range(visited)
            /\ IF getText(d, callee) = ReactName
               THEN AllOf(d, callee, "react")
               ELSE /\ NoReactCandidate(d, callee)
                    /\ AllOf(d, callee, "javascript")

\* C11's case: useless(0) has returned with its callee javascript.
C11_Witness ==
  /\ Returned
  /\ doc = IndexOf(DocCustom)
  /\ \E k \in 1..Len(visited) : IsCustomCall(Docs[doc], visited[k])
  /\ getLayerAt(result, 0) = "javascript"
  /\ getLayerAt(result, 6) = "javascript"

\* node n is a call whose callee text is React.createElement or createElement
IsCreateElementCall(d, n) ==
  /\ KindOf(d, n) = "CallExpression"
  /\ getText(d, d.nodes[n].expression) \in {ReactCreateElement, CreateElement}

\* the names of the properties called key of an object-literal node
KeyNames(d, o) ==
  {d.nodes[p].name : p \in {c \in Range(d.nodes[o].children) :
     /\ KindOf(d, c) = "PropertyAssignment"
     /\ IsIdentifier(d, d.nodes[c].name)
     /\ getText(d, d.nodes[c].name) = KeyName}}

\* C12 as stated: of a call on React.createElement or on bare createElement
\* the callee is react, a first argument that is a PascalCase identifier or
\* a React.* property access is react, and the name of a key property of an
\* object-literal second argument is react.
C12_CreateElement ==
  (Returned /\ doc \in DocIds) =>
    \A k \in 1..Len(visited) :
      LET d == Docs[doc]
          n == visited[k]
          args == d.nodes[n].arguments
      IN  IsCreateElementCall(d, n) =>
            /\ AllOf(d, d.nodes[n].expression, "react")
            /\ (/\ Len(args) >= 1
                /\ \/ IsIdentifier(d, args[1]) /\ isPascalCase(getText(d, args[1]))
                   \/ /\ KindOf(d, args[1]) = "PropertyAccessExpression"
                      /\ getText(d, d.nodes[args[1]].expression) = ReactName)
                 => AllOf(d, args[1], "react")
            /\ (Len(args) >= 2 /\ KindOf(d, args[2]) = "ObjectLiteralExpression")
                 => \A name \in KeyNames(d, args[2]) : AllOf(d, name, "react")

\* C12's case: React.createElement(A,{key:1}) has returned with the callee,
\* the component and the key name react.
C12_Witness ==
  /\ Returned
  /\ doc = IndexOf(DocCreate)
  /\ \E k \in 1..Len(visited) : IsCreateElementCall(Docs[doc], visited[k])
  /\ getLayerAt(result, 0) = "react"
  /\ getLayerAt(result, 20) = "react"
  /\ getLayerAt(result, 23) = "react"
  /\ getLayerAt(result, 27) = "javascript"

\* the type-argument list of a call or new expression, the type-parameter
\* list of a function declaration that is not ambient, else none
BracketedList(d, n) ==
  IF KindOf(d, n) \in {"CallExpression", "NewExpression"}
  THEN d.nodes[n].typeArguments
  ELSE IF KindOf(d, n) = "FunctionDeclaration" /\ "declare" \notin d.nodes[n].flags
  THEN d.nodes[n].typeParameters
  ELSE <<>>

\* the backward scan finds no opening bracket for the list, or the forward
\* scan no matching close
BracketLost(d, list) ==
  /\ list # <<>>
  /\ LET open == findOpeningBracket(d.text, d.nodes[list[1]].start - 1)
     IN  open = -1 \/ findMatchingCloseBracket(d.text, open) = -1

\* C14: when the scans find no opening bracket or no matching close for the
\* type-argument or type-parameter list of a visited node, no typescript
\* candidate is emitted for the list (so its '<' is javascript in the output),
\* the node's javascript candidate is still emitted, its children are still
\* visited and classified by their own rules, and the call returns.
C14_BracketNotFound ==
  (Returned /\ doc \in DocIds) =>
    \A k \in 1..Len(visited) :
      LET d == Docs[doc]
          n == visited[k]
          list == BracketedList(d, n)
      IN  BracketLost(d, list) =>
            LET first == d.nodes[list[1]].start
                open == findOpeningBracket(d.text, first - 1)
            IN  /\ ~\E c \in Range(rawRegions) :
                      /\ c.layer = "typescript"
                      /\ d.nodes[n].start <= c.start
                      /\ c.start < first
                /\ WholeSpan(d, n, "javascript") \in Range(rawRegions)
                /\ Range(d.nodes[n].children) \subseteq Range(visited)
                /\ \A i \in 1..Len(list) :
                     WholeSpan(d, list[i], classifyNode(d, list[i])) \in Range(rawRegions)
                /\ open # -1 => getLayerAt(result, open) = "javascript"

\* C14's case: in f<"<">() the forward scan finds no matching close; the call
\* has returned with the '<' javascript and the type argument typescript.
C14_Witness ==
  /\ Returned
  /\ doc = IndexOf(DocNoClose)
  /\ \E k \in 1..Len(visited) :
       BracketLost(Docs[doc], BracketedList(Docs[doc], visited[k]))
  /\ getLayerAt(result, 0) = "javascript"
  /\ getLayerAt(result, 1) = "javascript"
  /\ getLayerAt(result, 2) = "typescript"
  /\ getLayerAt(result, 5) = "javascript"

\* the offset of the '<' that opens a list: the last '<' before its first element
ListOpen(d, list) ==
  LET before == {p \in 0..(d.nodes[list[1]].start - 1) : CharAt(d.text, p) = "<"}
  IN  CHOOSE p \in before : \A q \in before : q <= p

\* the offset of the '>' that closes a list: the first '>' after its last element
ListClose(d, list) ==
  LET after == {p \in (d.nodes[list[Len(list)]].end)..(Len(d.text) - 1) :
                  CharAt(d.text, p) = ">"}
  IN  CHOOSE p \in after : \A q \in after : p <= q

\* C15 as stated: for every visited call with an explicit type-argument list a
\* typescript candidate is emitted that covers the list exactly, from its
\* opening '<' through its closing '>'.
C15_TypeArgumentListCovered ==
  (Returned /\ doc \in DocIds) =>
    \A k \in 1..Len(visited) :
      LET d == Docs[doc]
          n == visited[k]
          list == d.nodes[n].typeArguments
      IN  (KindOf(d, n) = "CallExpression" /\ list # <<>>) =>
            [start |-> ListOpen(d, list), end |-> ListClose(d, list) + 1,
             layer |-> "typescript", priority |-> PRIORITY("typescript")]
              \in Range(rawRegions)

\* C15's case: in f<M<K>>() the candidate covers the nested list exactly.
C15_Witness ==
  /\ Returned
  /\ doc = IndexOf(DocNested)
  /\ [start |-> 1, end |-> 7, layer |-> "typescript",
      priority |-> PRIORITY("typescript")] \in Range(rawRegions)
  /\ getLayerAt(result, 1) = "typescript"
  /\ getLayerAt(result, 6) = "typescript"
  /\ getLayerAt(result, 7) = "javascript"

\* "use client"
UseClient == <<"u", "s", "e", " ", "c", "l", "i", "e", "n", "t">>

\* "use server"
UseServer == <<"u", "s", "e", " ", "s", "e", "r", "v", "e", "r">>

\* C16: a visited expression statement whose expression is a string literal
\* gets one candidate over its whole span, react when the literal's text is
\* "use client" or "use server" and javascript otherwise; the whole statement
\* has that layer in the output and the literal inside is not visited.
C16_Directive ==
  (Returned /\ doc \in DocIds) =>
    \A k \in 1..Len(visited) :
      LET d == Docs[doc]
          n == visited[k]
      IN  (/\ KindOf(d, n) = "ExpressionStatement"
           /\ KindOf(d, d.nodes[n].expression) = "StringLiteral") =>
            LET literal == d.nodes[d.nodes[n].expression]
                text == SubSeq(d.text, literal.start + 2, literal.end - 1)
                layer == IF text \in {UseClient, UseServer}
                         THEN "react" ELSE "javascript"
            IN  /\ WholeSpan(d, n, layer) \in Range(rawRegions)
                /\ AllOf(d, n, layer)
                /\ Range(d.nodes[n].children) \cap Range(visited) = {}

\* C16's case: "use strict" has returned javascript as a whole, its literal
\* not visited.
C16_Witness ==
  /\ Returned
  /\ doc = IndexOf(DocStrict)
  /\ Len(visited) = 3
  /\ result = <<[start |-> 0, end |-> 12, layer |-> "javascript"]>>

RECURSIVE CommentsFrom(_, _)
CommentsFrom(text, pos) ==
  IF pos >= Len(text) THEN {}
  ELSE IF CharAt(text, pos) = "/" /\ CharAt(text, pos + 1) = "/"
  THEN {<<pos, LineEnd(text, pos + 2)>>} \cup CommentsFrom(text, LineEnd(text, pos + 2))
  ELSE IF CharAt(text, pos) = "/" /\ CharAt(text, pos + 1) = "*"
  THEN {<<pos, BlockEnd(text, pos + 2)>>} \cup CommentsFrom(text, BlockEnd(text, pos + 2))
  ELSE CommentsFrom(text, pos + 1)

\* the comments of document d
CommentsOf(d) == CommentsFrom(d.text, 0)

\* offset p of document d lies in one of its comments
InComment(d, p) == \E c \in CommentsOf(d) : c[1] <= p /\ p < c[2]

\* comment c trails node n: only blanks and comments of the same line lie
\* between the node's end and the comment
IsTrailingOf(d, n, c) ==
  /\ d.nodes[n].end <= c[1]
  /\ \A p \in (d.nodes[n].end)..(c[1] - 1) :
       CharAt(d.text, p) \in WhiteSpace \/ InComment(d, p)

\* comment c leads node n: it lies between the node's full start and its
\* first token, and the full start is offset 0 or a line break comes between
IsLeadingOf(d, n, c) ==
  /\ d.nodes[n].pos <= c[1]
  /\ c[2] <= d.nodes[n].start
  /\ \/ d.nodes[n].pos = 0
     \/ \E p \in (d.nodes[n].pos)..(c[1] - 1) : CharAt(d.text, p) \in LineBreaks

\* comment c is at the leading or trailing position of some node
IsAttached(d, c) ==
  \E n \in 1..Len(d.nodes) : IsTrailingOf(d, n, c) \/ IsLeadingOf(d, n, c)

\* the candidate addRegion records for comment c
CommentCandidate(c) ==
  [start |-> c[1], end |-> c[2], layer |-> "javascript",
   priority |-> PRIORITY("javascript")]

\* some candidate of another layer than javascript covers offset p
Outranked(p) == \E k \in Covering(p) : rawRegions[k].layer # "javascript"

IsImportOrExport(d, n) == KindOf(d, n) \in {"ImportDeclaration", "ExportDeclaration"}

\* the import or export declaration n is type-only as a whole
IsTypeOnly(d, n) ==
  IF KindOf(d, n) = "ImportDeclaration"
  THEN d.nodes[n].importClause # 0 /\ "typeOnly" \in d.nodes[d.nodes[n].importClause].flags
  ELSE "typeOnly" \in d.nodes[n].flags

\* the specifiers of the named bindings of the import or export declaration n
SpecifiersOf(d, n) ==
  {s \in 1..Len(d.nodes) :
     /\ KindOf(d, s) \in {"ImportSpecifier", "ExportSpecifier"}
     /\ d.nodes[n].start <= d.nodes[s].start
     /\ d.nodes[s].end <= d.nodes[n].end}

\* the specifiers of n that carry a type marker of their own
MarkedOf(d, n) == {s \in SpecifiersOf(d, n) : "typeOnly" \in d.nodes[s].flags}

\* the bound name of specifier s is in the tracked React type set
IsTrackedName(d, s) == getText(d, d.nodes[s].name) \in REACT_TYPES

\* offset p lies in the bound name of specifier s
InName(d, s, p) == p \in SpanOf(d, d.nodes[s].name)

\* offset p lies in the marker of specifier s: from the specifier's start up
\* to its first identifier
InMarker(d, s, p) ==
  d.nodes[s].start <= p /\ p < d.nodes[d.nodes[s].children[1]].start

\* offset p lies in specifier s before its bound name
BeforeName(d, s, p) ==
  d.nodes[s].start <= p /\ p < d.nodes[d.nodes[s].name].start

\* offset p lies in an identifier React inside node n
InReactIdentifier(d, n, p) ==
  \E m \in 1..Len(d.nodes) :
    /\ IsIdentifier(d, m)
    /\ getText(d, m) = ReactName
    /\ d.nodes[n].start <= d.nodes[m].start
    /\ d.nodes[m].end <= d.nodes[n].end
    /\ p \in SpanOf(d, m)

\* the layer of offset p of a type-only import or export declaration n
TypeOnlyLayer(d, n, p) ==
  IF \E s \in SpecifiersOf(d, n) : InName(d, s, p) /\ IsTrackedName(d, s)
  THEN "react"
  ELSE "typescript"

IsReactTypeName(d, n) ==
  LET typeName == getText(d, d.nodes[n].name)
  IN  \/ StartsWith(typeName, <<"R", "e", "a", "c", "t", ".">>)
      \/ StartsWith(typeName, <<"J", "S", "X", ".">>)
      \/ typeName \in REACT_TYPES

\* some react candidate covers offset p
ReactCovers(p) == \E k \in Covering(p) : rawRegions[k].layer = "react"

\* C20: a visited type reference gets one candidate over its whole span,
\* react when its referenced name starts with React. or JSX. or is in the
\* tracked React type set and typescript otherwise; the react one is react in
\* the output over the whole reference, also inside an enclosing typescript
\* span, and the typescript one is typescript in the output wherever no react
\* candidate covers it.
C20_TypeReference ==
  (Returned /\ doc \in DocIds) =>
    \A k \in 1..Len(visited) :
      LET d == Docs[doc]
          n == visited[k]
      IN  KindOf(d, n) = "TypeReference" =>
            IF IsReactTypeName(d, n)
            THEN /\ WholeSpan(d, n, "react") \in Range(rawRegions)
                 /\ WholeSpan(d, n, "typescript") \notin Range(rawRegions)
                 /\ AllOf(d, n, "react")
            ELSE /\ WholeSpan(d, n, "typescript") \in Range(rawRegions)
                 /\ WholeSpan(d, n, "react") \notin Range(rawRegions)
                 /\ \A p \in SpanOf(d, n) :
                      getLayerAt(result, p) =
                        IF ReactCovers(p) THEN "react" ELSE "typescript"

\* C20's case: type A=[FC,B] has returned: the alias typescript, FC react
\* inside it, B typescript.
C20_Witness ==
  /\ Returned
  /\ doc = IndexOf(DocTypeAlias)
  /\ WholeSpan(Docs[doc], 2, "typescript") \in Range(rawRegions)
  /\ getLayerAt(result, 0) = "typescript"
  /\ getLayerAt(result, 8) = "react"
  /\ getLayerAt(result, 9) = "react"
  /\ getLayerAt(result, 10) = "typescript"
  /\ getLayerAt(result, 11) = "typescript"

\* ------------------------------------------- special cases and the default

\* the node kinds that have a special case of their own in visit
SpecialKinds ==
  {"JsxSelfClosingElement", "JsxExpression", "JsxAttribute", "VariableStatement",
   "InterfaceDeclaration", "TypeAliasDeclaration", "EnumDeclaration",
   "ModuleDeclaration", "ClassDeclaration",
   "FunctionDeclaration", "ImportDeclaration", "ExportDeclaration",
   "CallExpression", "NewExpression"}

\* a special case of visit fires on node n
IsSpecial(d, n) ==
  \/ KindOf(d, n) \in SpecialKinds
  \/ KindOf(d, n) = "VariableDeclaration" /\ d.nodes[n].type # 0
  \/ KindOf(d, n) = "Parameter"
  \/ IsDirective(d, n)
  \/ IsEnumAccess(d, n, enumNames)

\* this step is one invocation of visit, on the node at the head of the stack
VisitStep == pc = "visit" /\ stack # <<>> /\ visited' = Append(visited, Head(stack))

\* the candidates this step has added
Added == SubSeq(rawRegions', Len(rawRegions) + 1, Len(rawRegions'))

\* how many of the added candidates span exactly node n
AddedOver(d, n) ==
  Cardinality({i \in 1..Len(Added) :
                 Added[i].start = d.nodes[n].start /\ Added[i].end = d.nodes[n].end})

\* the nodes this step has queued before the waiting siblings are children
\* of node n, each at most once
QueuedOnce(d, n) ==
  LET k == Len(stack') - Len(Tail(stack))
  IN  /\ k >= 0
      /\ SubSeq(stack', k + 1, Len(stack')) = Tail(stack)
      /\ \A i, j \in 1..k :
           /\ stack'[i] \in Range(d.nodes[n].children)
           /\ i # j => stack'[i] # stack'[j]

\* what the default mapping alone adds for node n
DefaultCandidates(d, n) ==
  IF classifyNode(d, n) # NoLayer /\ d.nodes[n].start < d.nodes[n].end
  THEN <<WholeSpan(d, n, classifyNode(d, n))>>
  ELSE <<>>

\* C13: an invocation of visit on a node a special case fires on does not
\* apply the default mapping to it as well: the node gets no second candidate
\* over its whole span and its children are queued at most once; on a node no
\* special case fires on, the invocation adds exactly what classifyNode gives
\* (nothing for null) and queues all children of the node.
C13_SpecialCaseSuppressesDefault ==
  [][VisitStep =>
       LET d == Docs[doc]
           n == Head(stack)
       IN  IF IsSpecial(d, n)
           THEN /\ DefaultCandidates(d, n) # <<>> => AddedOver(d, n) <= 1
                /\ QueuedOnce(d, n)
           ELSE /\ Added = DefaultCandidates(d, n)
                /\ stack' = d.nodes[n].children \o Tail(stack)]_vars

\* C13's case: const x = 1; has returned: the variable statement, a special
\* case whose default layer is javascript too, has one javascript candidate
\* over its span, and the declaration list below it, which has no special
\* case and no layer, was visited together with its children.
C13_Witness ==
  /\ Returned
  /\ doc = IndexOf(DocConst)
  /\ KindOf(Docs[doc], 2) = "VariableStatement"
  /\ classifyNode(Docs[doc], 2) = "javascript"
  /\ Cardinality({i \in 1..Len(rawRegions) :
                    rawRegions[i] = WholeSpan(Docs[doc], 2, "javascript")}) = 1
  /\ \A m \in 2..(Len(Docs[doc].nodes)) : m \in Range(visited)
  /\ \E m \in Range(visited) : ~IsSpecial(Docs[doc], m) /\ classifyNode(Docs[doc], m) = NoLayer

\* ------------------------------------------------------ ambient declarations

RECURSIVE Descendants(_, _)
\* the nodes below node n
Descendants(d, n) ==
  LET kids == Range(d.nodes[n].children)
  IN  kids \cup UNION {Descendants(d, m) : m \in kids}

\* node n is a declare-qualified variable statement, function declaration or
\* class declaration, or a module or namespace declaration
IsAmbient(d, n) ==
  \/ /\ KindOf(d, n) \in {"VariableStatement", "FunctionDeclaration", "ClassDeclaration"}
     /\ \E m \in Range(d.nodes[n].children) : KindOf(d, m) = "DeclareKeyword"
  \/ KindOf(d, n) = "ModuleDeclaration"

\* C21: a visited declare-qualified variable statement, function declaration
\* or class declaration, and a visited module or namespace declaration, has
\* one typescript candidate over its whole span, no node below it is visited,
\* and every offset of its span is typescript in the output.
C21_AmbientDeclaration ==
  (Returned /\ doc \in DocIds) =>
    \A k \in 1..Len(visited) :
      LET d == Docs[doc]
          n == visited[k]
      IN  IsAmbient(d, n) =>
            /\ Cardinality({i \in 1..Len(rawRegions) :
                              rawRegions[i] = WholeSpan(d, n, "typescript")}) = 1
            /\ Descendants(d, n) \cap Range(visited) = {}
            /\ AllOf(d, n, "typescript")

\* C21's case: namespace N{a /*c*/} has returned: the declaration was
\* visited, the identifier a and the comment inside it are typescript.
C21_Witness ==
  /\ Returned
  /\ doc = IndexOf(DocNamespace)
  /\ 2 \in Range(visited)
  /\ IsAmbient(Docs[doc], 2)
  /\ Descendants(Docs[doc], 2) # {}
  /\ CommentCandidate(<<14, 19>>) \in Range(rawRegions)
  /\ \A p \in 0..19 : getLayerAt(result, p) = "typescript"

\* ------------------------------------------------------------ type annotations

\* node n is a variable declaration or a parameter with a type annotation
IsAnnotated(d, n) ==
  KindOf(d, n) \in {"VariableDeclaration", "Parameter"} /\ d.nodes[n].type # 0

\* the colon of the annotation of node n: the ':' that only blanks separate
\* from the type
ColonOf(d, n) ==
  CHOOSE q \in 0..(d.nodes[d.nodes[n].type].start - 1) :
    /\ CharAt(d.text, q) = ":"
    /\ \A r \in (q + 1)..(d.nodes[d.nodes[n].type].start - 1) :
         CharAt(d.text, r) \in WhiteSpace

\* where the annotation of node n starts: at the optional marker '?' of a
\* parameter that has one, else at the colon
AnnotationStart(d, n) ==
  LET markers == {m \in Range(d.nodes[n].children) : KindOf(d, m) = "QuestionToken"}
  IN  IF KindOf(d, n) = "Parameter" /\ markers # {}
      THEN d.nodes[CHOOSE m \in markers : TRUE].start
      ELSE ColonOf(d, n)

\* the offsets of the annotation of node n, through the end of its type
AnnotationOf(d, n) == AnnotationStart(d, n)..(d.nodes[d.nodes[n].type].end - 1)

\* the statement of the source file that holds node n
StatementOf(d, n) ==
  CHOOSE s \in Range(d.nodes[1].children) :
    d.nodes[s].start <= d.nodes[n].start /\ d.nodes[n].end <= d.nodes[s].end

\* the offsets of the access modifiers of parameter n
ModifiersOf(d, n) ==
  UNION {SpanOf(d, m) : m \in {c \in Range(d.nodes[n].children) :
                                 KindOf(d, c) \in {"PublicKeyword", "PrivateKeyword",
                                                   "ProtectedKeyword", "ReadonlyKeyword"}}}

CountOf(text, ch, from, to) ==
  Cardinality({q \in from..to : CharAt(text, q) = ch})

\* the depth just after offset q, for a scan that starts with depth 1 just
\* after open
DepthAfter(text, open, q) ==
  1 + CountOf(text, "<", open + 1, q) - CountOf(text, ">", open + 1, q)

\* the offsets after open, inside the text, at which the depth is 0
Closes(text, open) ==
  {q \in 0..(Len(text) - 1) : q > open /\ DepthAfter(text, open, q) = 0}

\* C23: findMatchingCloseBracket(text, open) returns the smallest position
\* after open at which the depth, 1 just after open, one more on each '<'
\* and one less on each '>', reaches 0; it returns -1 when there is no such
\* position in the text; it returns in every case.
C23_MatchingCloseBracket ==
  helper = "findMatchingCloseBracket" =>
    IF Closes(sourceText, bracketPos) = {}
    THEN found = -1
    ELSE /\ found \in Closes(sourceText, bracketPos)
         /\ \A q \in Closes(sourceText, bracketPos) : found <= q

\* C23's case: on <<>> from the '<' at 0 the helper has returned 3, the '>'
\* that closes it after the inner pair.
C23_Witness ==
  /\ helper = "findMatchingCloseBracket"
  /\ sourceText = <<"<", "<", ">", ">">>
  /\ bracketPos = 0
  /\ found = 3

\* the offsets up to beforePos that hold a '<'
Opens(text, beforePos) ==
  {q \in 0..(Len(text) - 1) : q <= beforePos /\ CharAt(text, q) = "<"}

\* C24: findOpeningBracket(text, beforePos) returns the greatest position q
\* with 0 <= q <= beforePos and text[q] = '<', and -1 when there is none,
\* also for a negative beforePos; what it returns is -1 or holds a '<'.
C24_OpeningBracket ==
  helper = "findOpeningBracket" =>
    /\ IF Opens(sourceText, bracketPos) = {}
       THEN found = -1
       ELSE /\ found \in Opens(sourceText, bracketPos)
            /\ \A q \in Opens(sourceText, bracketPos) : q <= found
    /\ found = -1 \/ CharAt(sourceText, found) = "<"

\* C24's case: on <a<a from position 3 the helper has returned 2, the later
\* of the two '<'.
C24_Witness ==
  /\ helper = "findOpeningBracket"
  /\ sourceText = <<"<", "a", "<", "a">>
  /\ bracketPos = 3
  /\ found = 2

\* ------------------------------------------------ runs of the recorded layers

\* positionMap after the first loop of resolveOverlaps over the candidates of
\* the call: the layer recorded at every offset of the text
RecordedLayer ==
  ApplyRegions(EmptyMaps(textLength), rawRegions, textLength).positionMap

\* the offsets start..end-1 form a run of one recorded layer that cannot be
\* extended to either side
IsMaximalRun(region) ==
  /\ \A p \in region.start..(region.end - 1) : RecordedLayer[p] = region.layer
  /\ region.start = 0 \/ RecordedLayer[region.start - 1] # region.layer
  /\ region.end = textLength \/ RecordedLayer[region.end] # region.layer

\* C25: each region resolveOverlaps returns is a maximal run of offsets with
\* the same recorded layer: every offset inside it has the region's layer
\* recorded, the run cannot be extended to either side, and two consecutive
\* regions that touch have different layers.
C25_MaximalRuns ==
  Returned =>
    /\ \A i \in 1..Len(result) : IsMaximalRun(result[i])
    /\ \A i \in 1..(Len(result) - 1) :
         result[i].end = result[i + 1].start => result[i].layer # result[i + 1].layer

\* C25's case: the call returned two touching regions, the first a run of
\* several offsets cut short where a candidate of another layer won.
C25_Witness ==
  /\ Returned
  /\ \E i \in 1..(Len(result) - 1) :
       /\ result[i].end = result[i + 1].start
       /\ result[i].end - result[i].start >= 2
       /\ \E k \in 1..Len(rawRegions) :
            /\ rawRegions[k].layer = result[i].layer
            /\ rawRegions[k].start <= result[i].start
            /\ rawRegions[k].end > result[i].end

\* ------------------------------------------------- order of the candidates

\* the candidate list with the candidates at j and k exchanged
Swapped(regions, j, k) ==
  [i \in 1..Len(regions) |->
     IF i = j THEN regions[k] ELSE IF i = k THEN regions[j] ELSE regions[i]]

\* the candidate list in the order perm gives
Permuted(regions, perm) == [i \in 1..Len(regions) |-> regions[perm[i]]]

\* C26: the regions resolveOverlaps returns do not depend on the order of the
\* candidate list: candidates of equal priority have the same layer, every
\* exchange of two candidates gives the same sequence, and so does every
\* permutation of a list of at most MaxRegions candidates.
C26_OrderIndependent ==
  Returned =>
    /\ \A j, k \in 1..Len(rawRegions) :
         rawRegions[j].priority = rawRegions[k].priority
           => rawRegions[j].layer = rawRegions[k].layer
    /\ \A j, k \in 1..Len(rawRegions) :
         resolveOverlaps(Swapped(rawRegions, j, k), textLength) = result
    /\ Len(rawRegions) <= MaxRegions =>
         \A perm \in Permutations(1..Len(rawRegions)) :
           resolveOverlaps(Permuted(rawRegions, perm), textLength) = result

\* C26's case: two candidates of different layers cover one offset, the one
\* that wins comes first in the list, and the call has returned.
C26_Witness ==
  /\ Returned
  /\ \E p \in TextOffsets : \E j, k \in Covering(p) :
       /\ j < k
       /\ Outranks(rawRegions[j].layer, rawRegions[k].layer)
       /\ getLayerAt(result, p) = rawRegions[j].layer

\* ------------------------------------------------ the reclassification timer

\* the handler of a text change ran its body: highlighting was active and the
\* changed document was the active editor's
Debounced(document) ==
  isActive /\ activeEditor # 0 /\ document = activeEditor

\* the number of times a call occurs among the calls of the last handler
Occurrences(call) == Cardinality({i \in 1..Len(effects) : effects[i] = call})

\* C27: while highlighting is active a text change to the active editor's
\* document cancels the pending timer, if any, and sets a new one, which is
\* then the only pending timer; at most one timer is ever pending; a change
\* to another document or while highlighting is inactive sets and cancels
\* nothing; a pending timer goes away only by expiring, which runs
\* updateDecorations exactly once, or by such a change, and it does go away.
C27_Debounce ==
  /\ [](Cardinality(pending) <= 1)
  /\ [][\A document \in Documents :
          ChangeDocument(document) =>
            IF Debounced(document)
            THEN /\ timeout' \notin pending \cup {timeout}
                 /\ pending' = {timeout'}
                 /\ effects' = (IF pending # {} THEN <<"clearTimeout">> ELSE <<>>)
                                 \o <<"setTimeout">>
                      \/ (pending = {} /\ effects' = <<"clearTimeout", "setTimeout">>)
            ELSE /\ UNCHANGED <<timeout, pending>>
                 /\ effects' = <<>>]_vars
  /\ [][\A id \in TimerIds :
          (id \in pending /\ id \notin pending') =>
            \/ /\ TimerFires(id)
               /\ pending' = {}
               /\ Occurrences("updateDecorations")' = 1
            \/ Debounced(activeEditor) /\ ChangeDocument(activeEditor)]_vars
  /\ \A id \in TimerIds : (id \in pending) ~> (id \notin pending)

\* C27's case: a text change to the active document set a timer in place of
\* the one held in timeout, and no other timer is pending.
C27_Witness ==
  /\ isActive
  /\ event = "docChange"
  /\ effects = <<"clearTimeout", "setTimeout">>
  /\ pending = {timeout}

\* ------------------------------------------------ highlighting turned off

\* the last handler called applyDecorations
Applied == \E i \in 1..Len(effects) : effects[i] = "applyDecorations"

\* C28 as stated: while highlighting is inactive no handler executes
\* applyDecorations and every visible editor is undecorated, whatever the
\* order of document changes, editor changes, configuration changes and
\* timer expiries.
C28_UndecoratedWhileInactive ==
  ~isActive => (~Applied /\ decorated \cap visibleEditors = {})

\* C28's case: highlighting was turned off while a timer was pending, the
\* timer expired, and updateDecorations decorated the active editor.
C28_Witness ==
  /\ ~isActive
  /\ event = "timer"
  /\ Applied
  /\ activeEditor \in decorated \cap visibleEditors

\* ------------------------------------------------------- the context key

\* the last handler called showLegend
LegendShown == \E i \in 1..Len(effects) : effects[i] = "showLegend"

\* C29: after every toggle and every Turn Off the context key equals
\* isActive. A toggle flips isActive; a toggle to on sets the key to true
\* and shows the legend; a toggle to off and a Turn Off set isActive to
\* false, leave no visible editor decorated and set the key to false, also
\* when highlighting was inactive already.
C29_ContextKeyFollows ==
  /\ [](event \in {"toggle", "turnOff"} => contextKey = isActive)
  /\ [][Toggle =>
          /\ isActive' = ~isActive
          /\ isActive' => (contextKey' /\ LegendShown' /\ onTurnOff')
          /\ ~isActive' => (~contextKey' /\ decorated' \cap visibleEditors' = {})]_vars
  /\ [][TurnOff =>
          /\ ~isActive'
          /\ ~contextKey'
          /\ decorated' \cap visibleEditors' = {}]_vars

\* C29's case: Turn Off from the legend ran turnOffHighlighting in a window
\* whose active editor shows a .tsx or .jsx file.
C29_Witness ==
  /\ event = "turnOff"
  /\ onTurnOff
  /\ ~isActive
  /\ ~contextKey
  /\ effects = <<"clearAllDecorations", "setContext">>
  /\ decorated = {}
  /\ activeEditor # 0
  /\ MatchesTsxOrJsx(FileName(activeEditor))

\* -------------------------------------------------------- the file name

\* the editor exists and its file name ends in .tsx or .jsx
ShowsTsxOrJsx(editor) ==
  /\ editor \in Editors
  /\ \/ EndsWith(FileName(editor), <<".", "t", "s", "x">>)
     \/ EndsWith(FileName(editor), <<".", "j", "s", "x">>)

\* the last handler called the function
Called(call) == \E i \in 1..Len(effects) : effects[i] = call

\* C30: a handler that calls updateDecorations classifies and decorates
\* exactly when there is an active editor whose file name ends in .tsx or
\* .jsx, and then it decorates that editor; with no active editor or any
\* other file name updateDecorations calls neither classifyDocument nor
\* applyDecorations (the only caller of setDecorations it has) and the
\* decorations stay as they were when it was called.
C30_OnlyTsxOrJsx ==
  [][Called("updateDecorations")' =>
       IF ShowsTsxOrJsx(activeEditor')
       THEN /\ Called("classifyDocument")'
            /\ Called("applyDecorations")'
            /\ activeEditor' \in decorated'
       ELSE /\ ~Called("classifyDocument")'
            /\ ~Called("applyDecorations")'
            /\ decorated' = IF Called("disposeDecorationTypes")' THEN {} ELSE decorated]_vars

\* C30's case: the active editor changed to one whose file name has no .tsx
\* or .jsx ending while another editor was decorated, and updateDecorations
\* returned without a call.
C30_Witness ==
  /\ isActive
  /\ event = "editorChange"
  /\ effects = <<"updateDecorations">>
  /\ activeEditor \in Editors
  /\ ~ShowsTsxOrJsx(activeEditor)
  /\ decorated # {}

====
